---- MODULE Spec2Model ----
(***************************************************************************)
(* Workflow orchestration core of dealmotion-marketing: the pipeline_runs  *)
(* table and its single writer update_pipeline_run, the stuck-run sweep    *)
(* and the operator endpoints of routers/pipeline.py, and the three        *)
(* workflow functions of inngest/functions.py (daily pipeline, video       *)
(* generation, YouTube upload) running on a memoizing step executor.       *)
(***************************************************************************)
EXTENDS Integers, Sequences, FiniteSets, TLC

(***************************************************************************)
(* Bounds of the model.                                                    *)
(***************************************************************************)
\* number of daily pipeline invocations (each creates one run record)
MaxRuns == 1
\* largest number of topics the ideation step returns
MaxIdeas == 3
\* the clock runs from 0 to MaxClock ticks
MaxClock == 2
\* number of cleanup-stuck-runs requests
MaxSweeps == 2
\* number of times the engine re-enters a workflow function from its top
MaxReplays == 1
\* number of invocations of the video workflow (event deliveries)
MaxVideoRuns == 2
\* number of invocations of the upload workflow (event deliveries)
MaxUploadRuns == 2
\* number of run records in the specification of the run store alone
MaxStoreRuns == 2
\* requests to POST /videos/generate
MaxSegments == 5       \* segments of a script
MaxWords == 9          \* words of a script's full_text
MaxRequests == 1

(***************************************************************************)
(* Program constants.                                                      *)
(***************************************************************************)
\* timedelta(minutes=10) of cleanup_stuck_runs
StuckMinutes == 10
\* _wait_for_render(render_id, max_wait=300) and its poll_interval
CaptionScenes == 4
RenderMaxWait == 300
RenderPollInterval == 5
\* max_wait and poll_interval of the loop of VideoService.generate_video
VideoMaxWait == 300
VideoPollInterval == 10
\* get_pipeline_runs(limit=50) of cleanup_stuck_runs
SweepLimit == 50
\* minutes of wall-clock time one tick of the model's clock stands for
TickMinutes == 10

\* Python's None for the Optional[int], Optional[str] and Optional[List[str]]
\* parameters of update_pipeline_run
NoneInt == -1
NoneStr == ""
NoneList == <<"None">>

TimeoutMsg == "Run timed out or was interrupted"

VARIABLES
    now,          \* wall clock, in ticks
    runs,         \* table pipeline_runs: sequence of rows, id = index
    topics,       \* table topics
    scripts,      \* table scripts
    videos,       \* table videos
    uploads,      \* table youtube_uploads
    videoEvents,  \* marketing/video.generate events sent so far
    uploadEvents, \* marketing/youtube.upload events sent so far
    daily,        \* invocations of daily_content_pipeline
    vgen,         \* invocations of generate_video_fn
    upl,          \* invocations of upload_to_youtube_fn
    sweep,        \* cleanup_stuck_runs requests
    replays,      \* number of re-entries so far
    tfp,          \* the invocation of test_full_pipeline_fn
    poller,       \* a call of an adapter's polling loop
    sched,        \* a call of DailyPipeline.run_pipeline
    caption       \* the caption texts of a script, before and after preparation

vars == <<now, runs, topics, scripts, videos, uploads, videoEvents,
          uploadEvents, daily, vgen, upl, sweep, replays, tfp, poller, sched,
          caption>>

tables == <<topics, scripts, videos, uploads>>

Dailies == 1..MaxRuns
Sweeps == 1..MaxSweeps
VideoRuns == 1..MaxVideoRuns
UploadRuns == 1..MaxUploadRuns

(***************************************************************************)
(* Run store: DatabaseService, pipeline_runs.                              *)
(***************************************************************************)

\* the row create_pipeline_run inserts at time t; the counters and the error
\* list take the column defaults of the run record
NewRun(t) ==
    [status |-> "running", started_at |-> t, completed_at |-> NoneInt,
     topics_generated |-> 0, scripts_generated |-> 0, videos_created |-> 0,
     videos_uploaded |-> 0, errors |-> <<>>]

create_pipeline_run(table, t) == Append(table, NewRun(t))

\* the keyword arguments of update_pipeline_run, all defaulted to None
NoArgs ==
    [status |-> NoneStr, topics_generated |-> NoneInt,
     scripts_generated |-> NoneInt, videos_created |-> NoneInt,
     videos_uploaded |-> NoneInt, errors |-> NoneList]

\* an update that writes every column, the ones not passed with their
\* defaults
ApplyUpdatesOverwrite(row, a, t) ==
    [status |-> IF a.status # NoneStr THEN a.status ELSE "running",
     started_at |-> row.started_at,
     completed_at |->
        IF a.status = "completed" \/ a.status = "failed" THEN t ELSE NoneInt,
     topics_generated |->
        IF a.topics_generated # NoneInt THEN a.topics_generated ELSE 0,
     scripts_generated |->
        IF a.scripts_generated # NoneInt THEN a.scripts_generated ELSE 0,
     videos_created |->
        IF a.videos_created # NoneInt THEN a.videos_created ELSE 0,
     videos_uploaded |->
        IF a.videos_uploaded # NoneInt THEN a.videos_uploaded ELSE 0,
     errors |-> IF a.errors # NoneList THEN a.errors ELSE <<>>]

\* an update that stamps completed_at whatever is passed
ApplyUpdatesStamps(row, a, t) ==
    [row EXCEPT
        !.status = IF a.status # NoneStr THEN a.status ELSE @,
        !.topics_generated =
            IF a.topics_generated # NoneInt THEN a.topics_generated ELSE @,
        !.scripts_generated =
            IF a.scripts_generated # NoneInt THEN a.scripts_generated ELSE @,
        !.videos_created =
            IF a.videos_created # NoneInt THEN a.videos_created ELSE @,
        !.videos_uploaded =
            IF a.videos_uploaded # NoneInt THEN a.videos_uploaded ELSE @,
        !.errors = IF a.errors # NoneList THEN a.errors ELSE @,
        !.completed_at = t]

\* the dict `updates` written over one row
ApplyUpdates(row, a, t) ==
    [row EXCEPT
        !.status = IF a.status # NoneStr THEN a.status ELSE @,
        !.topics_generated =
            IF a.topics_generated # NoneInt THEN a.topics_generated ELSE @,
        !.scripts_generated =
            IF a.scripts_generated # NoneInt THEN a.scripts_generated ELSE @,
        !.videos_created =
            IF a.videos_created # NoneInt THEN a.videos_created ELSE @,
        !.videos_uploaded =
            IF a.videos_uploaded # NoneInt THEN a.videos_uploaded ELSE @,
        !.errors = IF a.errors # NoneList THEN a.errors ELSE @,
        !.completed_at =
            IF a.status = "completed" \/ a.status = "failed" THEN t ELSE @]

\* the update without the filter on the id
update_pipeline_run_unfiltered(table, run_id, a, t) ==
    [r \in DOMAIN table |-> ApplyUpdates(table[r], a, t)]

\* table("pipeline_runs").update(updates).eq("id", run_id)
update_pipeline_run(table, run_id, a, t) ==
    [r \in DOMAIN table |->
        IF r = run_id THEN ApplyUpdates(table[r], a, t) ELSE table[r]]

RECURSIVE Descending(_)
Descending(n) == IF n = 0 THEN <<>> ELSE <<n>> \o Descending(n - 1)

\* select("*").order("created_at", desc=True).limit(limit); the sweep reads
\* the columns id, status and started_at of each row
get_pipeline_runs(table, limit) ==
    LET ids == Descending(Len(table))
        n   == IF Len(ids) < limit THEN Len(ids) ELSE limit
    IN  [k \in 1..n |->
            [id |-> ids[k], status |-> table[ids[k]].status,
             started_at |-> table[ids[k]].started_at]]

(***************************************************************************)
(* Step executor: ctx.step.run / ctx.step.send_event.  A step result is    *)
(* stored per invocation under the step id; a stored result is returned    *)
(* without calling the work function.                                      *)
(***************************************************************************)
Hit(memo, sid) == sid \in DOMAIN memo

Ok(v) == [ok |-> TRUE, val |-> v]

StepError(sid) == "step failed: " \o sid

\* the failure stored for a step after `tries` calls of its work function
Failed(sid, tries) == [ok |-> FALSE, err |-> StepError(sid), tries |-> tries]

\* what the work functions raise: ValueError for a missing key or template,
\* Exception for an API answer that is not a success
Raises == {"ValueError", "Exception"}

\* the errors the executor takes as marked non-retryable
NonRetriable == {"NonRetriableError"}

\* retries= of create_function with one more retry
RetriesOffByOne(fn_id) == IF fn_id = "test-full-pipeline" THEN 1 ELSE 3

\* retries= of create_function
Retries(fn_id) == IF fn_id = "test-full-pipeline" THEN 0 ELSE 2

\* the failed call of invocation p was the last one the executor makes
Exhausted(p) == p.attempt = Retries(p.fn_id)

\* the executor calls the work function again after it raised kind
RetriesAfter(p, kind) == kind \notin NonRetriable /\ p.attempt < Retries(p.fn_id)

\* the results a step of invocation p can return: the stored one, or those of
\* a call of the work function: a success, or the failure the executor
\* stores when it makes no further call
StepResults(p, sid, fresh) ==
    IF Hit(p.memo, sid) THEN {p.memo[sid]}
    ELSE fresh \cup (IF Exhausted(p) THEN {Failed(sid, p.attempt + 1)} ELSE {})

\* TRUE when the step's work function runs now and succeeds
Runs(memo, sid, res) == ~Hit(memo, sid) /\ res.ok

Store(memo, sid, res) == IF Hit(memo, sid) THEN memo ELSE (sid :> res) @@ memo

\* number of successful calls of each step's work function (history)
Count(calls, memo, sid, res) ==
    IF Runs(memo, sid, res)
    THEN (sid :> (IF sid \in DOMAIN calls THEN calls[sid] + 1 ELSE 1)) @@ calls
    ELSE calls

\* a step id built from a value that differs between two entries of the
\* function (what an id taken outside a step would be)
IdPerEntry(prefix, n) == prefix \o ToString(n + replays)

\* f"save-topic-{...}", f"generate-script-{topic_id}", ...: the step id of a
\* loop iteration
Id(prefix, n) == prefix \o ToString(n)

(***************************************************************************)
(* daily_content_pipeline: one record per invocation.  pc is the step the  *)
(* function is about to run; the other fields are its local variables, the *)
(* step results stored for it (memo) and the history of work-function      *)
(* calls (calls).                                                          *)
(***************************************************************************)
EmptyMemo == [s \in {} |-> TRUE]

DailyStart ==
    [pc |-> "idle", fn_id |-> "daily-content-pipeline", attempt |-> 0,
     run_id |-> 0, topics |-> <<>>, saved_topics |-> <<>>,
     i |-> 0, script |-> 0, script_id |-> 0, errors |-> <<>>, exc |-> "",
     memo |-> EmptyMemo, calls |-> EmptyMemo]

\* the record after the step sid returned res
Stepped(p, sid, res) ==
    [p EXCEPT !.memo = Store(p.memo, sid, res),
              !.calls = Count(p.calls, p.memo, sid, res),
              !.attempt = IF Hit(p.memo, sid) THEN @ ELSE 0]

\* the steps whose work function checks its configuration first: the speech,
\* background video, render and upload adapters
ConfigChecked ==
    {"generate-tts", "generate-background-video", "render-final-video",
     "upload-video"}

\* what the work function of step sid raises
RaisedBy(sid) ==
    IF sid \in ConfigChecked THEN Raises ELSE Raises \ {"ValueError"}

\* the work function of the pending step sid of invocation p raised kind and
\* the executor calls it again
CanRetry(p, sid, kind) ==
    /\ kind \in RaisedBy(sid)
    /\ ~Hit(p.memo, sid)
    /\ RetriesAfter(p, kind)

\* an outer handler that logs the error and goes on to the completion step
OuterExceptSwallows(p, sid) ==
    [p EXCEPT !.pc = "complete", !.exc = StepError(sid),
              !.errors = Append(@, StepError(sid))]

\* the outer `except Exception as e` of the function (lines 143-145)
OuterExcept(p, sid) ==
    [p EXCEPT !.pc = "fail", !.exc = StepError(sid),
              !.errors = Append(@, StepError(sid))]

\* the next iteration of `for i, topic in enumerate(saved_topics)`
NextIdea(p) ==
    [p EXCEPT !.i = p.i + 1,
              !.pc = IF p.i + 1 < Len(p.saved_topics)
                     THEN "generate_script" ELSE "complete"]

\* f"Topic {topic_id}: {str(e)}" (line 135)
TopicErrorMsg(topic_id, sid) ==
    "Topic " \o ToString(topic_id) \o ": " \o StepError(sid)

\* the inner `except Exception as e` of the loop body (lines 133-135)
InnerExcept(p, topic_id, sid) ==
    NextIdea([p EXCEPT !.errors = Append(@, TopicErrorMsg(topic_id, sid))])

\* the topics an ideation call can return
TopicLists == {[j \in 1..n |-> j] : n \in 0..MaxIdeas}

\* the cron trigger starts an invocation, the invocation records being used
\* in order
DailyTrigger(d) ==
    /\ daily[d].pc = "idle"
    /\ \A q \in 1..(d - 1) : daily[q].pc # "idle"
    /\ daily' = [daily EXCEPT ![d].pc = "create"]
    /\ UNCHANGED <<caption, sched, poller, tfp, now, runs, tables, videoEvents, uploadEvents, vgen, upl,
                   sweep, replays>>

\* step "create-pipeline-run" (lines 49-53)
DailyCreateRun(d) ==
    LET p == daily[d]
        sid == "create-pipeline-run"
    IN  /\ p.pc = "create"
        /\ \E res \in StepResults(p, sid, {Ok(Len(runs) + 1)}) :
            /\ runs' = IF Runs(p.memo, sid, res)
                       THEN create_pipeline_run(runs, now) ELSE runs
            /\ daily' = [daily EXCEPT ![d] =
                    IF res.ok
                    THEN [Stepped(p, sid, res) EXCEPT
                            !.pc = "generate_topics", !.run_id = res.val]
                    ELSE [Stepped(p, sid, res) EXCEPT !.pc = "error"]]
        /\ UNCHANGED <<caption, sched, poller, tfp, now, tables, videoEvents, uploadEvents, vgen, upl,
                       sweep, replays>>

\* step "generate-topics" (lines 68-76)
DailyGenerateTopics(d) ==
    LET p == daily[d]
        sid == "generate-topics"
    IN  /\ p.pc = "generate_topics"
        /\ \E res \in StepResults(p, sid, {Ok(t) : t \in TopicLists}) :
            daily' = [daily EXCEPT ![d] =
                IF res.ok
                THEN [Stepped(p, sid, res) EXCEPT
                        !.topics = res.val,
                        !.pc = IF Len(res.val) = 0
                               THEN "update_topics" ELSE "save_topic"]
                ELSE OuterExcept(Stepped(p, sid, res), sid)]
        /\ UNCHANGED <<caption, sched, poller, tfp, now, runs, tables, videoEvents, uploadEvents, vgen,
                       upl, sweep, replays>>

\* step "save-topic-<id>" of the loop over topics (lines 80-85)
DailySaveTopic(d) ==
    LET p == daily[d]
        k == Len(p.saved_topics) + 1
        sid == Id("save-topic-", p.topics[k])
    IN  /\ p.pc = "save_topic"
        /\ \E res \in StepResults(p, sid, {Ok(Len(topics) + 1)}) :
            /\ topics' = IF Runs(p.memo, sid, res)
                         THEN Append(topics, [topic |-> p.topics[k]])
                         ELSE topics
            /\ daily' = [daily EXCEPT ![d] =
                    IF res.ok
                    THEN [Stepped(p, sid, res) EXCEPT
                            !.saved_topics = Append(@, res.val),
                            !.pc = IF k = Len(p.topics)
                                   THEN "update_topics" ELSE "save_topic"]
                    ELSE OuterExcept(Stepped(p, sid, res), sid)]
        /\ UNCHANGED <<caption, sched, poller, tfp, now, runs, scripts, videos, uploads, videoEvents,
                       uploadEvents, vgen, upl, sweep, replays>>

\* step "update-run-topics" (lines 88-91), then the loop header (line 94)
DailyUpdateTopics(d) ==
    LET p == daily[d]
        sid == "update-run-topics"
    IN  /\ p.pc = "update_topics"
        /\ \E res \in StepResults(p, sid, {Ok(0)}) :
            /\ runs' = IF Runs(p.memo, sid, res)
                       THEN update_pipeline_run(runs, p.run_id,
                              [NoArgs EXCEPT
                                 !.topics_generated = Len(p.topics)], now)
                       ELSE runs
            /\ daily' = [daily EXCEPT ![d] =
                    IF res.ok
                    THEN [Stepped(p, sid, res) EXCEPT
                            !.i = 0,
                            !.pc = IF Len(p.saved_topics) = 0
                                   THEN "complete" ELSE "generate_script"]
                    ELSE OuterExcept(Stepped(p, sid, res), sid)]
        /\ UNCHANGED <<caption, sched, poller, tfp, now, tables, videoEvents, uploadEvents, vgen, upl,
                       sweep, replays>>

\* step "generate-script-<topic_id>" (lines 95-103)
DailyGenerateScript(d) ==
    LET p == daily[d]
        topic_id == p.saved_topics[p.i + 1]
        sid == Id("generate-script-", topic_id)
    IN  /\ p.pc = "generate_script"
        /\ \E res \in StepResults(p, sid, {Ok(topic_id)}) :
            daily' = [daily EXCEPT ![d] =
                IF res.ok
                THEN [Stepped(p, sid, res) EXCEPT
                        !.script = res.val, !.pc = "save_script"]
                ELSE InnerExcept(Stepped(p, sid, res), topic_id, sid)]
        /\ UNCHANGED <<caption, sched, poller, tfp, now, runs, tables, videoEvents, uploadEvents, vgen,
                       upl, sweep, replays>>

\* step "save-script-<topic_id>" (lines 106-109)
DailySaveScript(d) ==
    LET p == daily[d]
        topic_id == p.saved_topics[p.i + 1]
        sid == Id("save-script-", topic_id)
    IN  /\ p.pc = "save_script"
        /\ \E res \in StepResults(p, sid, {Ok(Len(scripts) + 1)}) :
            /\ scripts' = IF Runs(p.memo, sid, res)
                          THEN Append(scripts, [topic_id |-> topic_id,
                                                script |-> p.script])
                          ELSE scripts
            /\ daily' = [daily EXCEPT ![d] =
                    IF res.ok
                    THEN [Stepped(p, sid, res) EXCEPT
                            !.script_id = res.val, !.pc = "update_scripts"]
                    ELSE InnerExcept(Stepped(p, sid, res), topic_id, sid)]
        /\ UNCHANGED <<caption, sched, poller, tfp, now, runs, topics, videos, uploads, videoEvents,
                       uploadEvents, vgen, upl, sweep, replays>>

\* the loop index passed as it is
ScriptsGeneratedArgIndex(i) == i

\* the counter value the loop body passes: scripts_generated=i+1 (line 114)
ScriptsGeneratedArg(i) == i + 1

\* step "update-run-scripts-<topic_id>" (lines 112-115)
DailyUpdateScripts(d) ==
    LET p == daily[d]
        topic_id == p.saved_topics[p.i + 1]
        sid == Id("update-run-scripts-", topic_id)
    IN  /\ p.pc = "update_scripts"
        /\ \E res \in StepResults(p, sid, {Ok(0)}) :
            /\ runs' = IF Runs(p.memo, sid, res)
                       THEN update_pipeline_run(runs, p.run_id,
                              [NoArgs EXCEPT !.scripts_generated =
                                 ScriptsGeneratedArg(p.i)], now)
                       ELSE runs
            /\ daily' = [daily EXCEPT ![d] =
                    IF res.ok
                    THEN [Stepped(p, sid, res) EXCEPT !.pc = "send_event"]
                    ELSE InnerExcept(Stepped(p, sid, res), topic_id, sid)]
        /\ UNCHANGED <<caption, sched, poller, tfp, now, tables, videoEvents, uploadEvents, vgen, upl,
                       sweep, replays>>

\* the event with the topic's id in the place of the saved script's id
VideoGenerateEventTopicId(topic_id, script, script_id, run_id) ==
    [topic_id |-> topic_id, script |-> script, script_id |-> topic_id,
     run_id |-> run_id, upload_after |-> TRUE]

\* the marketing/video.generate event of lines 120-130
VideoGenerateEvent(topic_id, script, script_id, run_id) ==
    [topic_id |-> topic_id, script |-> script, script_id |-> script_id,
     run_id |-> run_id, upload_after |-> TRUE]

\* step.send_event("trigger-video-generation", ...) (lines 118-131)
DailySendEvent(d) ==
    LET p == daily[d]
        topic_id == p.saved_topics[p.i + 1]
        sid == "trigger-video-generation"
    IN  /\ p.pc = "send_event"
        /\ \E res \in StepResults(p, sid, {Ok(0)}) :
            /\ videoEvents' =
                    IF Runs(p.memo, sid, res)
                    THEN Append(videoEvents,
                           VideoGenerateEvent(topic_id, p.script,
                                              p.script_id, p.run_id))
                    ELSE videoEvents
            /\ daily' = [daily EXCEPT ![d] =
                    IF res.ok
                    THEN NextIdea(Stepped(p, sid, res))
                    ELSE InnerExcept(Stepped(p, sid, res), topic_id, sid)]
        /\ UNCHANGED <<caption, sched, poller, tfp, now, runs, tables, uploadEvents, vgen, upl, sweep,
                       replays>>

\* step "complete-pipeline-run" (lines 138-141)
DailyComplete(d) ==
    LET p == daily[d]
        sid == "complete-pipeline-run"
    IN  /\ p.pc = "complete"
        /\ \E res \in StepResults(p, sid, {Ok(0)}) :
            /\ runs' = IF Runs(p.memo, sid, res)
                       THEN update_pipeline_run(runs, p.run_id,
                              [NoArgs EXCEPT !.status = "completed"], now)
                       ELSE runs
            /\ daily' = [daily EXCEPT ![d] =
                    IF res.ok
                    THEN [Stepped(p, sid, res) EXCEPT !.pc = "done"]
                    ELSE OuterExcept(Stepped(p, sid, res), sid)]
        /\ UNCHANGED <<caption, sched, poller, tfp, now, tables, videoEvents, uploadEvents, vgen, upl,
                       sweep, replays>>

\* step "fail-pipeline-run" of the outer handler (lines 146-149)
DailyFail(d) ==
    LET p == daily[d]
        sid == "fail-pipeline-run"
    IN  /\ p.pc = "fail"
        /\ \E res \in StepResults(p, sid, {Ok(0)}) :
            /\ runs' = IF Runs(p.memo, sid, res)
                       THEN update_pipeline_run(runs, p.run_id,
                              [NoArgs EXCEPT !.status = "failed",
                                             !.errors = <<p.exc>>], now)
                       ELSE runs
            /\ daily' = [daily EXCEPT ![d] =
                    IF res.ok
                    THEN [Stepped(p, sid, res) EXCEPT !.pc = "done"]
                    ELSE [Stepped(p, sid, res) EXCEPT !.pc = "error"]]
        /\ UNCHANGED <<caption, sched, poller, tfp, now, tables, videoEvents, uploadEvents, vgen, upl,
                       sweep, replays>>

\* the id of the step the function is about to run
DailySid(p) ==
    CASE p.pc = "create" -> "create-pipeline-run"
      [] p.pc = "generate_topics" -> "generate-topics"
      [] p.pc = "save_topic" ->
            Id("save-topic-", p.topics[Len(p.saved_topics) + 1])
      [] p.pc = "update_topics" -> "update-run-topics"
      [] p.pc = "generate_script" ->
            Id("generate-script-", p.saved_topics[p.i + 1])
      [] p.pc = "save_script" -> Id("save-script-", p.saved_topics[p.i + 1])
      [] p.pc = "update_scripts" ->
            Id("update-run-scripts-", p.saved_topics[p.i + 1])
      [] p.pc = "send_event" -> "trigger-video-generation"
      [] p.pc = "complete" -> "complete-pipeline-run"
      [] p.pc = "fail" -> "fail-pipeline-run"

\* the work function of the pending step raises kind and the executor
\* schedules another call of it (retries=2, line 36)
DailyRetry(d, kind) ==
    /\ daily[d].pc \notin {"idle", "done", "error"}
    /\ CanRetry(daily[d], DailySid(daily[d]), kind)
    /\ daily' = [daily EXCEPT ![d].attempt = @ + 1]
    /\ UNCHANGED <<caption, sched, poller, tfp, now, runs, tables, videoEvents, uploadEvents, vgen, upl,
                   sweep, replays>>

\* the engine re-enters the function from its top; the locals start afresh,
\* the stored step results stay
DailyReplay(d) ==
    /\ daily[d].pc \notin {"idle", "done", "error"}
    /\ replays < MaxReplays
    /\ replays' = replays + 1
    /\ daily' = [daily EXCEPT ![d] =
            [DailyStart EXCEPT !.pc = "create", !.attempt = daily[d].attempt,
                               !.memo = daily[d].memo,
                               !.calls = daily[d].calls]]
    /\ UNCHANGED <<caption, sched, poller, tfp, now, runs, tables, videoEvents, uploadEvents, vgen, upl,
                   sweep>>

DailyStep(d) ==
    \/ DailyTrigger(d)
    \/ DailyCreateRun(d)
    \/ DailyGenerateTopics(d)
    \/ DailySaveTopic(d)
    \/ DailyUpdateTopics(d)
    \/ DailyGenerateScript(d)
    \/ DailySaveScript(d)
    \/ DailyUpdateScripts(d)
    \/ DailySendEvent(d)
    \/ DailyComplete(d)
    \/ DailyFail(d)

(***************************************************************************)
(* generate_video_fn: one record per delivery of a video.generate event.   *)
(***************************************************************************)
VideoStart ==
    [pc |-> "free", fn_id |-> "generate-video", attempt |-> 0,
     data |-> VideoGenerateEvent(0, 0, 0, 0), audio_url |-> "",
     background_video_url |-> "", final_video_url |-> "", video_db_id |-> 0,
     memo |-> EmptyMemo, calls |-> EmptyMemo]

\* the lowest invocation record not yet in use
FirstFree(procs, v) == procs[v].pc = "free" /\ \A w \in 1..(v - 1) : procs[w].pc # "free"

\* the event router hands event e to the function (at least once, so an
\* event may be handed over again)
VideoDeliver(v) ==
    /\ FirstFree(vgen, v)
    /\ \E e \in DOMAIN videoEvents :
        vgen' = [vgen EXCEPT ![v].pc = "tts", ![v].data = videoEvents[e]]
    /\ UNCHANGED <<caption, sched, poller, tfp, now, runs, tables, videoEvents, uploadEvents, daily, upl,
                   sweep, replays>>

\* step "generate-tts" (lines 188-193)
VideoTts(v) ==
    LET p == vgen[v]
        sid == "generate-tts"
    IN  /\ p.pc = "tts"
        /\ \E res \in StepResults(p, sid, {Ok(Id("audio-", v))}) :
            vgen' = [vgen EXCEPT ![v] =
                IF res.ok
                THEN [Stepped(p, sid, res) EXCEPT
                        !.audio_url = res.val, !.pc = "background"]
                ELSE [Stepped(p, sid, res) EXCEPT !.pc = "error"]]
        /\ UNCHANGED <<caption, sched, poller, tfp, now, runs, tables, videoEvents, uploadEvents, daily,
                       upl, sweep, replays>>

\* step "generate-background-video" (lines 197-205)
VideoBackground(v) ==
    LET p == vgen[v]
        sid == "generate-background-video"
    IN  /\ p.pc = "background"
        /\ \E res \in StepResults(p, sid, {Ok(Id("clip-", v))}) :
            vgen' = [vgen EXCEPT ![v] =
                IF res.ok
                THEN [Stepped(p, sid, res) EXCEPT
                        !.background_video_url = res.val, !.pc = "render"]
                ELSE [Stepped(p, sid, res) EXCEPT !.pc = "error"]]
        /\ UNCHANGED <<caption, sched, poller, tfp, now, runs, tables, videoEvents, uploadEvents, daily,
                       upl, sweep, replays>>

\* step "render-final-video" (lines 229-238)
VideoRender(v) ==
    LET p == vgen[v]
        sid == "render-final-video"
    IN  /\ p.pc = "render"
        /\ \E res \in StepResults(p, sid, {Ok(Id("final-", v))}) :
            vgen' = [vgen EXCEPT ![v] =
                IF res.ok
                THEN [Stepped(p, sid, res) EXCEPT
                        !.final_video_url = res.val, !.pc = "save_video"]
                ELSE [Stepped(p, sid, res) EXCEPT !.pc = "error"]]
        /\ UNCHANGED <<caption, sched, poller, tfp, now, runs, tables, videoEvents, uploadEvents, daily,
                       upl, sweep, replays>>

\* the row create_video inserts (database_service.py lines 102-109)
VideoRow(script_id, video_url, audio_url) ==
    [script_id |-> script_id, video_url |-> video_url, audio_url |-> audio_url,
     status |-> IF video_url # "" THEN "ready" ELSE "processing"]

\* the branch after the video record is saved without the test of
\* upload_after
AfterSaveVideoAlwaysUploads(p) ==
    IF p.data.run_id # 0 THEN "update_videos" ELSE "send_upload"

\* the branch after the video record is saved without the counter update
AfterSaveVideoSkipsRun(p) ==
    IF p.data.upload_after THEN "send_upload" ELSE "done"

\* after the video record is saved: `if run_id:` (line 255), else
\* `if upload_after:` (line 262)
AfterSaveVideo(p) ==
    IF p.data.run_id # 0 THEN "update_videos"
    ELSE IF p.data.upload_after THEN "send_upload" ELSE "done"

\* step "save-video-to-db" (lines 241-252)
VideoSave(v) ==
    LET p == vgen[v]
        sid == "save-video-to-db"
    IN  /\ p.pc = "save_video"
        /\ \E res \in StepResults(p, sid, {Ok(Len(videos) + 1)}) :
            /\ videos' = IF Runs(p.memo, sid, res)
                         THEN Append(videos,
                                VideoRow(p.data.script_id, p.final_video_url,
                                         p.audio_url))
                         ELSE videos
            /\ vgen' = [vgen EXCEPT ![v] =
                    IF res.ok
                    THEN [Stepped(p, sid, res) EXCEPT
                            !.video_db_id = res.val, !.pc = AfterSaveVideo(p)]
                    ELSE [Stepped(p, sid, res) EXCEPT !.pc = "error"]]
        /\ UNCHANGED <<caption, sched, poller, tfp, now, runs, topics, scripts, uploads, videoEvents,
                       uploadEvents, daily, upl, sweep, replays>>

\* the counter value the video workflow passes: videos_created=1 (line 258)
VideosCreatedArg == 1

\* step "update-run-videos" (lines 255-259)
VideoUpdateRun(v) ==
    LET p == vgen[v]
        sid == "update-run-videos"
    IN  /\ p.pc = "update_videos"
        /\ \E res \in StepResults(p, sid, {Ok(0)}) :
            /\ runs' = IF Runs(p.memo, sid, res)
                       THEN update_pipeline_run(runs, p.data.run_id,
                              [NoArgs EXCEPT
                                 !.videos_created = VideosCreatedArg], now)
                       ELSE runs
            /\ vgen' = [vgen EXCEPT ![v] =
                    IF res.ok
                    THEN [Stepped(p, sid, res) EXCEPT
                            !.pc = IF p.data.upload_after
                                   THEN "send_upload" ELSE "done"]
                    ELSE [Stepped(p, sid, res) EXCEPT !.pc = "error"]]
        /\ UNCHANGED <<caption, sched, poller, tfp, now, tables, videoEvents, uploadEvents, daily, upl,
                       sweep, replays>>

\* the marketing/youtube.upload event of lines 266-276
YoutubeUploadEvent(video_url, video_db_id, run_id) ==
    [video_url |-> video_url, video_db_id |-> video_db_id, run_id |-> run_id]

\* step.send_event("trigger-youtube-upload", ...) (lines 262-277)
VideoSendUpload(v) ==
    LET p == vgen[v]
        sid == "trigger-youtube-upload"
    IN  /\ p.pc = "send_upload"
        /\ \E res \in StepResults(p, sid, {Ok(0)}) :
            /\ uploadEvents' =
                    IF Runs(p.memo, sid, res)
                    THEN Append(uploadEvents,
                           YoutubeUploadEvent(p.final_video_url,
                                              p.video_db_id, p.data.run_id))
                    ELSE uploadEvents
            /\ vgen' = [vgen EXCEPT ![v] =
                    IF res.ok
                    THEN [Stepped(p, sid, res) EXCEPT !.pc = "done"]
                    ELSE [Stepped(p, sid, res) EXCEPT !.pc = "error"]]
        /\ UNCHANGED <<caption, sched, poller, tfp, now, runs, tables, videoEvents, daily, upl, sweep,
                       replays>>

\* the id of the step the function is about to run
VideoSid(p) ==
    CASE p.pc = "tts" -> "generate-tts"
      [] p.pc = "background" -> "generate-background-video"
      [] p.pc = "render" -> "render-final-video"
      [] p.pc = "save_video" -> "save-video-to-db"
      [] p.pc = "update_videos" -> "update-run-videos"
      [] p.pc = "send_upload" -> "trigger-youtube-upload"

\* the work function of the pending step raises kind and the executor
\* schedules another call of it (retries=2, line 161)
VideoRetry(v, kind) ==
    /\ vgen[v].pc \notin {"free", "done", "error"}
    /\ CanRetry(vgen[v], VideoSid(vgen[v]), kind)
    /\ vgen' = [vgen EXCEPT ![v].attempt = @ + 1]
    /\ UNCHANGED <<caption, sched, poller, tfp, now, runs, tables, videoEvents, uploadEvents, daily, upl,
                   sweep, replays>>

\* the engine re-enters the function from its top with the same event
VideoReplay(v) ==
    /\ vgen[v].pc \notin {"free", "done", "error"}
    /\ replays < MaxReplays
    /\ replays' = replays + 1
    /\ vgen' = [vgen EXCEPT ![v] =
            [VideoStart EXCEPT !.pc = "tts", !.data = vgen[v].data,
                               !.attempt = vgen[v].attempt,
                               !.memo = vgen[v].memo,
                               !.calls = vgen[v].calls]]
    /\ UNCHANGED <<caption, sched, poller, tfp, now, runs, tables, videoEvents, uploadEvents, daily, upl,
                   sweep>>

VideoStep(v) ==
    \/ VideoDeliver(v)
    \/ VideoTts(v)
    \/ VideoBackground(v)
    \/ VideoRender(v)
    \/ VideoSave(v)
    \/ VideoUpdateRun(v)
    \/ VideoSendUpload(v)

(***************************************************************************)
(* upload_to_youtube_fn: one record per delivery of a youtube.upload event.*)
(***************************************************************************)
UploadStart ==
    [pc |-> "free", fn_id |-> "upload-youtube", attempt |-> 0,
     data |-> YoutubeUploadEvent("", 0, 0), youtube_id |-> "",
     memo |-> EmptyMemo, calls |-> EmptyMemo]

UploadDeliver(u) ==
    /\ FirstFree(upl, u)
    /\ \E e \in DOMAIN uploadEvents :
        upl' = [upl EXCEPT ![u].pc = "upload", ![u].data = uploadEvents[e]]
    /\ UNCHANGED <<caption, sched, poller, tfp, now, runs, tables, videoEvents, uploadEvents, daily, vgen,
                   sweep, replays>>

\* after the upload: `if video_db_id:` (line 323), else `if run_id:` (line 338)
AfterUpload(p) ==
    IF p.data.video_db_id # 0 THEN "save_upload"
    ELSE IF p.data.run_id # 0 THEN "update_uploads" ELSE "done"

\* step "upload-video" (lines 308-320)
UploadVideo(u) ==
    LET p == upl[u]
        sid == "upload-video"
    IN  /\ p.pc = "upload"
        /\ \E res \in StepResults(p, sid, {Ok(Id("yt-", u))}) :
            upl' = [upl EXCEPT ![u] =
                IF res.ok
                THEN [Stepped(p, sid, res) EXCEPT
                        !.youtube_id = res.val, !.pc = AfterUpload(p)]
                ELSE [Stepped(p, sid, res) EXCEPT !.pc = "error"]]
        /\ UNCHANGED <<caption, sched, poller, tfp, now, runs, tables, videoEvents, uploadEvents, daily,
                       vgen, sweep, replays>>

\* step "save-youtube-upload" (lines 323-335)
UploadSave(u) ==
    LET p == upl[u]
        sid == "save-youtube-upload"
    IN  /\ p.pc = "save_upload"
        /\ \E res \in StepResults(p, sid, {Ok(Len(uploads) + 1)}) :
            /\ uploads' = IF Runs(p.memo, sid, res)
                          THEN Append(uploads,
                                 [video_id |-> p.data.video_db_id,
                                  youtube_id |-> p.youtube_id])
                          ELSE uploads
            /\ upl' = [upl EXCEPT ![u] =
                    IF res.ok
                    THEN [Stepped(p, sid, res) EXCEPT
                            !.pc = IF p.data.run_id # 0
                                   THEN "update_uploads" ELSE "done"]
                    ELSE [Stepped(p, sid, res) EXCEPT !.pc = "error"]]
        /\ UNCHANGED <<caption, sched, poller, tfp, now, runs, topics, scripts, videos, videoEvents,
                       uploadEvents, daily, vgen, sweep, replays>>

\* the counter value the upload workflow passes: videos_uploaded=1 (line 341)
VideosUploadedArg == 1

\* step "update-run-uploads" (lines 338-342)
UploadUpdateRun(u) ==
    LET p == upl[u]
        sid == "update-run-uploads"
    IN  /\ p.pc = "update_uploads"
        /\ \E res \in StepResults(p, sid, {Ok(0)}) :
            /\ runs' = IF Runs(p.memo, sid, res)
                       THEN update_pipeline_run(runs, p.data.run_id,
                              [NoArgs EXCEPT
                                 !.videos_uploaded = VideosUploadedArg], now)
                       ELSE runs
            /\ upl' = [upl EXCEPT ![u] =
                    IF res.ok
                    THEN [Stepped(p, sid, res) EXCEPT !.pc = "done"]
                    ELSE [Stepped(p, sid, res) EXCEPT !.pc = "error"]]
        /\ UNCHANGED <<caption, sched, poller, tfp, now, tables, videoEvents, uploadEvents, daily, vgen,
                       sweep, replays>>

\* the id of the step the function is about to run
UploadSid(p) ==
    CASE p.pc = "upload" -> "upload-video"
      [] p.pc = "save_upload" -> "save-youtube-upload"
      [] p.pc = "update_uploads" -> "update-run-uploads"

\* the work function of the pending step raises kind and the executor
\* schedules another call of it (retries=2, line 295)
UploadRetry(u, kind) ==
    /\ upl[u].pc \notin {"free", "done", "error"}
    /\ CanRetry(upl[u], UploadSid(upl[u]), kind)
    /\ upl' = [upl EXCEPT ![u].attempt = @ + 1]
    /\ UNCHANGED <<caption, sched, poller, tfp, now, runs, tables, videoEvents, uploadEvents, daily, vgen,
                   sweep, replays>>

\* the engine re-enters the function from its top with the same event
UploadReplay(u) ==
    /\ upl[u].pc \notin {"free", "done", "error"}
    /\ replays < MaxReplays
    /\ replays' = replays + 1
    /\ upl' = [upl EXCEPT ![u] =
            [UploadStart EXCEPT !.pc = "upload", !.data = upl[u].data,
                                !.attempt = upl[u].attempt,
                               !.memo = upl[u].memo,
                                !.calls = upl[u].calls]]
    /\ UNCHANGED <<caption, sched, poller, tfp, now, runs, tables, videoEvents, uploadEvents, daily, vgen,
                   sweep>>

UploadStep(u) ==
    \/ UploadDeliver(u)
    \/ UploadVideo(u)
    \/ UploadSave(u)
    \/ UploadUpdateRun(u)

(***************************************************************************)
(* routers/pipeline.py: the operator endpoints and cleanup_stuck_runs.     *)
(***************************************************************************)
\* POST /runs/{run_id}/complete
mark_run_completed(r) ==
    /\ runs' = update_pipeline_run(runs, r,
                  [NoArgs EXCEPT !.status = "completed"], now)
    /\ UNCHANGED <<caption, sched, poller, tfp, now, tables, videoEvents, uploadEvents, daily, vgen, upl,
                   sweep, replays>>

\* POST /runs/{run_id}/fail
mark_run_failed(r) ==
    /\ runs' = update_pipeline_run(runs, r,
                  [NoArgs EXCEPT !.status = "failed"], now)
    /\ UNCHANGED <<caption, sched, poller, tfp, now, tables, videoEvents, uploadEvents, daily, vgen, upl,
                   sweep, replays>>

OperatorStep == \E r \in DOMAIN runs : mark_run_completed(r) \/ mark_run_failed(r)

SweepStart == [pc |-> "idle", runs |-> <<>>, stuck_count |-> 0, updated |-> {}]

\* the threshold test with the bound included
IsStuckAtLeast(started_at, t) == (t - started_at) * TickMinutes >= StuckMinutes

\* (now - started) > timedelta(minutes=10) (line 166)
IsStuck(started_at, t) == (t - started_at) * TickMinutes > StuckMinutes

\* the test of one loop iteration on the row as read (lines 154-166)
SweepFails(run, t) ==
    /\ run.status = "running"
    /\ run.started_at # NoneInt
    /\ IsStuck(run.started_at, t)

\* a request arrives and reads the runs (lines 148-152)
SweepRead(s) ==
    /\ sweep[s].pc = "idle"
    /\ \A q \in 1..(s - 1) : sweep[q].pc # "idle"
    /\ sweep' = [sweep EXCEPT ![s].pc = "loop",
                              ![s].runs = get_pipeline_runs(runs, SweepLimit)]
    /\ UNCHANGED <<caption, sched, poller, tfp, now, runs, tables, videoEvents, uploadEvents, daily, vgen,
                   upl, replays>>

\* one iteration of `for run in runs` (lines 153-174); updated is the history
\* of the runs this request has written
SweepRun(s) ==
    LET w == sweep[s]
        run == Head(w.runs)
    IN  /\ w.pc = "loop"
        /\ w.runs # <<>>
        /\ IF SweepFails(run, now)
           THEN /\ runs' = update_pipeline_run(runs, run.id,
                              [NoArgs EXCEPT !.status = "failed",
                                             !.errors = <<TimeoutMsg>>], now)
                /\ sweep' = [sweep EXCEPT
                                ![s].runs = Tail(w.runs),
                                ![s].stuck_count = w.stuck_count + 1,
                                ![s].updated = w.updated \cup {run.id}]
           ELSE /\ runs' = runs
                /\ sweep' = [sweep EXCEPT ![s].runs = Tail(w.runs)]
        /\ UNCHANGED <<caption, sched, poller, tfp, now, tables, videoEvents, uploadEvents, daily, vgen,
                       upl, replays>>

\* the response with stuck_runs_fixed (lines 176-180)
SweepReturn(s) ==
    /\ sweep[s].pc = "loop"
    /\ sweep[s].runs = <<>>
    /\ sweep' = [sweep EXCEPT ![s].pc = "returned"]
    /\ UNCHANGED <<caption, sched, poller, tfp, now, runs, tables, videoEvents, uploadEvents, daily, vgen,
                   upl, replays>>

SweepStep(s) == SweepRead(s) \/ SweepRun(s) \/ SweepReturn(s)

\* time passes
Tick ==
    /\ now < MaxClock
    /\ now' = now + 1
    /\ UNCHANGED <<caption, sched, poller, tfp, runs, tables, videoEvents, uploadEvents, daily, vgen, upl,
                   sweep, replays>>

(***************************************************************************)
(* Specifications.                                                         *)
(***************************************************************************)
(***************************************************************************)
(* routers/videos.py: POST /videos/generate sends a video.generate event   *)
(* without topic_id, script_id and run_id (data.get(...) gives None).      *)
(***************************************************************************)
RouterEvent(upload_after) ==
    [topic_id |-> 0, script |-> 0, script_id |-> 0, run_id |-> 0,
     upload_after |-> upload_after]

Requested == {e \in DOMAIN videoEvents : videoEvents[e].run_id = 0}

generate_video(upload_after) ==
    /\ Cardinality(Requested) < MaxRequests
    /\ videoEvents' = Append(videoEvents, RouterEvent(upload_after))
    /\ UNCHANGED <<caption, sched, poller, tfp, now, runs, tables, uploadEvents, daily, vgen, upl,
                   sweep, replays>>

(***************************************************************************)
(* test_full_pipeline_fn: the whole pipeline inline in one function, for   *)
(* one topic.  k is the position in TestSteps of the step the function is  *)
(* about to run.                                                           *)
(***************************************************************************)
\* the step ids of the function in program order (lines 372-524)
TestSteps ==
    <<"test-create-pipeline-run", "test-generate-topic", "test-save-topic",
      "test-update-run-topics", "test-generate-script", "test-save-script",
      "test-update-run-scripts", "test-generate-audio",
      "test-generate-video-clips", "test-render-video", "test-save-video",
      "test-update-run-videos", "test-upload-youtube",
      "test-save-youtube-upload", "test-complete-pipeline-run">>

\* the arguments the step sid passes to update_pipeline_run (lines 405-408,
\* 425-428, 487-490, 521-524); NoArgs for a step that does not update the run
TestArgs(sid) ==
    CASE sid = "test-update-run-topics" ->
            [NoArgs EXCEPT !.topics_generated = 1]
      [] sid = "test-update-run-scripts" ->
            [NoArgs EXCEPT !.scripts_generated = 1]
      [] sid = "test-update-run-videos" ->
            [NoArgs EXCEPT !.videos_created = 1]
      [] sid = "test-complete-pipeline-run" ->
            [NoArgs EXCEPT !.status = "completed", !.videos_uploaded = 1]
      [] OTHER -> NoArgs

TestStart ==
    [pc |-> "idle", fn_id |-> "test-full-pipeline", attempt |-> 0, k |-> 0,
     run_id |-> 0, exc |-> "", memo |-> EmptyMemo, calls |-> EmptyMemo]

\* the event marketing/test.full-pipeline starts the function
TestTrigger ==
    /\ tfp.pc = "idle"
    /\ tfp' = [tfp EXCEPT !.pc = "step", !.k = 1]
    /\ UNCHANGED <<caption, sched, poller, now, runs, tables, videoEvents, uploadEvents, daily, vgen,
                   upl, sweep, replays>>

\* the run table after the work function of step sid ran
TestRunsAfter(p, sid) ==
    IF sid = "test-create-pipeline-run"
    THEN create_pipeline_run(runs, now)
    ELSE update_pipeline_run(runs, p.run_id, TestArgs(sid), now)

\* the function after step sid returned: the next step, or the return
\* statement after the last one
TestAfter(p, sid, res) ==
    [Stepped(p, sid, res) EXCEPT
        !.k = p.k + 1,
        !.run_id = IF sid = "test-create-pipeline-run" THEN res.val ELSE @,
        !.pc = IF p.k = Len(TestSteps) THEN "return" ELSE "step"]

\* the step raised: no try/except around the steps, the function ends
TestRaised(p, sid, res) ==
    [Stepped(p, sid, res) EXCEPT !.pc = "error", !.exc = StepError(sid)]

\* the results a successful call of the work function of step sid gives: the
\* work function of test-render-video calls render_short with the keyword
\* background_video_urls (line 466), which render_short does not take
\* (render_service.py lines 30-36), so that every call of it raises TypeError
TestFresh(p, sid) ==
    IF sid = "test-render-video" THEN {}
    ELSE {Ok(IF sid = "test-create-pipeline-run" THEN Len(runs) + 1 ELSE 0)}

\* one `await step.run(...)` of the function (lines 372-524)
TestStep ==
    LET p == tfp
        sid == TestSteps[p.k]
    IN  /\ p.pc = "step"
        /\ \E res \in StepResults(p, sid, TestFresh(p, sid)) :
            /\ runs' = IF Runs(p.memo, sid, res)
                       THEN TestRunsAfter(p, sid) ELSE runs
            /\ topics' = IF Runs(p.memo, sid, res) /\ sid = "test-save-topic"
                         THEN Append(topics, [topic |-> 1]) ELSE topics
            /\ scripts' = IF Runs(p.memo, sid, res) /\ sid = "test-save-script"
                          THEN Append(scripts, [topic_id |-> 1, script |-> 1])
                          ELSE scripts
            /\ videos' = IF Runs(p.memo, sid, res) /\ sid = "test-save-video"
                         THEN Append(videos, VideoRow(1, "final-t", "audio-t"))
                         ELSE videos
            /\ uploads' = IF Runs(p.memo, sid, res)
                             /\ sid = "test-save-youtube-upload"
                          THEN Append(uploads, [video_id |-> Len(videos),
                                                youtube_id |-> "yt-t"])
                          ELSE uploads
            /\ tfp' = IF res.ok THEN TestAfter(p, sid, res)
                                ELSE TestRaised(p, sid, res)
        /\ UNCHANGED <<caption, sched, poller, now, videoEvents, uploadEvents, daily, vgen, upl,
                       sweep, replays>>

(***************************************************************************)
(* The polling loops of the adapters: RenderService._wait_for_render and   *)
(* the loop of VideoService.generate_video.  The external job answers each *)
(* poll as it likes.                                                       *)
(***************************************************************************)
PollIdle ==
    [fn |-> "", pc |-> "idle", waited |-> 0, polls |-> 0, status |-> "",
     done |-> FALSE, err |-> ""]

\* the statuses a render reports
RenderStatuses == {"planned", "rendering", "succeeded", "failed"}

\* `while waited <= max_wait`
RenderLoopCondInclusive(waited) == waited <= RenderMaxWait

\* `while waited < max_wait` (render_service.py line 158)
RenderLoopCond(waited) == waited < RenderMaxWait

\* _wait_for_render is called (lines 148-155)
RenderWaitStart ==
    /\ poller.pc = "idle"
    /\ poller' = [PollIdle EXCEPT !.fn = "_wait_for_render", !.pc = "loop"]
    /\ UNCHANGED <<caption, sched, tfp, now, runs, tables, videoEvents, uploadEvents, daily,
                   vgen, upl, sweep, replays>>

\* one iteration of the loop: the GET, the tests of the answer, the sleep
\* (lines 158-178)
RenderWaitPoll(status_code, status) ==
    /\ poller.pc = "loop"
    /\ poller.fn = "_wait_for_render"
    /\ RenderLoopCond(poller.waited)
    /\ poller' =
          IF status_code # 200
          THEN [poller EXCEPT !.polls = @ + 1, !.pc = "raised",
                              !.err = "Failed to get render status"]
          ELSE IF status \in {"succeeded", "failed"}
          THEN [poller EXCEPT !.polls = @ + 1, !.pc = "returned",
                              !.status = status]
          ELSE [poller EXCEPT !.polls = @ + 1, !.status = status,
                              !.waited = @ + RenderPollInterval]
    /\ UNCHANGED <<caption, sched, tfp, now, runs, tables, videoEvents, uploadEvents, daily,
                   vgen, upl, sweep, replays>>

\* the loop ends: raise Exception("Render timed out") (line 180)
RenderWaitTimeout ==
    /\ poller.pc = "loop"
    /\ poller.fn = "_wait_for_render"
    /\ ~RenderLoopCond(poller.waited)
    /\ poller' = [poller EXCEPT !.pc = "raised", !.err = "Render timed out"]
    /\ UNCHANGED <<caption, sched, tfp, now, runs, tables, videoEvents, uploadEvents, daily,
                   vgen, upl, sweep, replays>>

\* `not operation.done and waited < max_wait` (video_service.py line 90)
VideoLoopCond(done, waited) == ~done /\ waited < VideoMaxWait

\* generate_videos returns the operation (lines 73-88)
VideoWaitStart(done) ==
    /\ poller.pc = "idle"
    /\ poller' = [PollIdle EXCEPT !.fn = "generate_video", !.pc = "loop",
                                  !.done = done]
    /\ UNCHANGED <<caption, sched, tfp, now, runs, tables, videoEvents, uploadEvents, daily,
                   vgen, upl, sweep, replays>>

\* one iteration: sleep, then operations.get (lines 90-94)
VideoWaitPoll(done) ==
    /\ poller.pc = "loop"
    /\ poller.fn = "generate_video"
    /\ VideoLoopCond(poller.done, poller.waited)
    /\ poller' = [poller EXCEPT !.polls = @ + 1, !.done = done,
                                !.waited = @ + VideoPollInterval]
    /\ UNCHANGED <<caption, sched, tfp, now, runs, tables, videoEvents, uploadEvents, daily,
                   vgen, upl, sweep, replays>>

\* after the loop (lines 96-131): the timeout error when the operation is
\* not done, else the video, or the error of a result without video
VideoWaitExit(has_video) ==
    /\ poller.pc = "loop"
    /\ poller.fn = "generate_video"
    /\ ~VideoLoopCond(poller.done, poller.waited)
    /\ poller' =
          IF ~poller.done
          THEN [poller EXCEPT !.pc = "raised",
                   !.err = "Video generation timed out after 5 minutes"]
          ELSE IF has_video
          THEN [poller EXCEPT !.pc = "returned", !.status = "completed"]
          ELSE [poller EXCEPT !.pc = "raised",
                   !.err = "No video generated in response"]
    /\ UNCHANGED <<caption, sched, tfp, now, runs, tables, videoEvents, uploadEvents, daily,
                   vgen, upl, sweep, replays>>

(***************************************************************************)
(* scheduler/daily_pipeline.py: DailyPipeline.run_pipeline, the pipeline   *)
(* inline in one coroutine.  failed is the history of the stages that      *)
(* failed, entered and generated the history of the topics the loop took   *)
(* up and counted.                                                         *)
(***************************************************************************)

SchedIdle ==
    [pc |-> "idle", topics |-> 0, i |-> 0, shorts_generated |-> 0,
     shorts_uploaded |-> 0, errors |-> <<>>, failed |-> <<>>,
     entered |-> {}, generated |-> {}]

\* the failure of stage for topic i (0 for the topic generation)
StageError(stage, i) == [stage |-> stage, topic |-> i]

\* `for topic in topics`: the next topic, or the return
NextTopic(p) ==
    IF p.i < p.topics
    THEN [p EXCEPT !.i = p.i + 1, !.pc = "script",
                   !.entered = @ \cup {p.i + 1}]
    ELSE [p EXCEPT !.pc = "returned"]

\* `except Exception as e: results["errors"].append(str(e))` of the loop
\* body (lines 88-90)
TopicExcept(p, stage) ==
    NextTopic([p EXCEPT !.errors = Append(@, StageError(stage, p.i)),
                        !.failed = Append(@, StageError(stage, p.i))])

\* run_pipeline is called (lines 53-66)
SchedStart ==
    /\ sched.pc = "idle"
    /\ sched' = [sched EXCEPT !.pc = "topics"]
    /\ UNCHANGED <<caption, poller, tfp, now, runs, tables, videoEvents,
                   uploadEvents, daily, vgen, upl, sweep, replays>>

\* topics = await self._generate_topics() (line 70), n < 0 for a call that
\* raises (outer handler, lines 92-94)
SchedGenerateTopics(n) ==
    /\ sched.pc = "topics"
    /\ sched' =
          IF n < 0
          THEN [sched EXCEPT !.pc = "returned",
                   !.errors = Append(@, StageError("topics", 0)),
                   !.failed = Append(@, StageError("topics", 0))]
          ELSE NextTopic([sched EXCEPT !.topics = n])
    /\ UNCHANGED <<caption, poller, tfp, now, runs, tables, videoEvents,
                   uploadEvents, daily, vgen, upl, sweep, replays>>

\* the stage after stage in the loop body (lines 74-80)
StageAfter(stage) ==
    CASE stage = "script" -> "audio"
      [] stage = "audio" -> "video"
      [] stage = "video" -> "upload"

\* _generate_script, _generate_audio, _generate_video of the current topic
\* (lines 74-82): shorts_generated += 1 after the video
SchedGenerate(ok) ==
    /\ sched.pc \in {"script", "audio", "video"}
    /\ sched' =
          IF ~ok THEN TopicExcept(sched, sched.pc)
          ELSE IF sched.pc = "video"
          THEN [sched EXCEPT !.pc = "upload",
                             !.shorts_generated = @ + 1,
                             !.generated = @ \cup {sched.i}]
          ELSE [sched EXCEPT !.pc = StageAfter(sched.pc)]
    /\ UNCHANGED <<caption, poller, tfp, now, runs, tables, videoEvents,
                   uploadEvents, daily, vgen, upl, sweep, replays>>

\* what _upload_video does (lines 166-188): the upload, authenticate()
\* returning False (`return False`), or an exception of upload_video
UploadOutcomes == {"uploaded", "not_authenticated", "raised"}

\* `if await self._upload_video(script, video_path)` (lines 85-86)
SchedUpload(outcome) ==
    /\ sched.pc = "upload"
    /\ sched' =
          CASE outcome = "uploaded" ->
                 NextTopic([sched EXCEPT !.shorts_uploaded = @ + 1])
            [] outcome = "not_authenticated" ->
                 NextTopic([sched EXCEPT
                    !.failed = Append(@, StageError("upload", sched.i))])
            [] outcome = "raised" -> TopicExcept(sched, "upload")
    /\ UNCHANGED <<caption, poller, tfp, now, runs, tables, videoEvents,
                   uploadEvents, daily, vgen, upl, sweep, replays>>

(***************************************************************************)
(* app/inngest/functions.py: the caption texts of generate_video_fn and    *)
(* test_full_pipeline_fn.  A word is a number, a text the sequence of its  *)
(* words (the empty string is the empty sequence), so `" ".join` of a      *)
(* slice of words is the slice.                                            *)
(***************************************************************************)
NoCaption == [pc |-> "idle", segments |-> <<>>, words |-> <<>>,
              texts |-> <<>>]

\* Python's seq[a:b] for 0 <= a <= b
Slice(seq, a, b) ==
    SubSeq(seq, a + 1, IF b < Len(seq) THEN b ELSE Len(seq))

\* `[" ".join(words[i:i+chunk_size]) for i in range(0, len(words),
\* chunk_size)]` from index i on
RECURSIVE ChunksFrom(_, _, _)
ChunksFrom(words, chunk_size, i) ==
    IF i >= Len(words) THEN <<>>
    ELSE <<Slice(words, i, i + chunk_size)>>
           \o ChunksFrom(words, chunk_size, i + chunk_size)

\* `chunk_size = max(1, len(words) // 4)`
ChunkSize(words) ==
    IF Len(words) \div CaptionScenes > 1
    THEN Len(words) \div CaptionScenes ELSE 1

\* the texts split from full_text, `[...][:4]`
SplitFullText(words) ==
    Slice(ChunksFrom(words, ChunkSize(words), 0), 0, CaptionScenes)

\* `while len(texts) < 4: texts.append("")`
RECURSIVE Pad(_)
Pad(texts) ==
    IF Len(texts) < CaptionScenes THEN Pad(Append(texts, <<>>)) ELSE texts

\* `if not texts or all(t == "" for t in texts)`
NoSegmentTexts(texts) == \A k \in DOMAIN texts : texts[k] = <<>>

\* the texts passed to the render step for a script
CaptionTexts(segments, words) ==
    LET texts == Slice(segments, 0, CaptionScenes)
    IN  Pad(IF NoSegmentTexts(texts) THEN SplitFullText(words) ELSE texts)

\* the segment lists of a script: up to MaxSegments texts, empty or of one
\* word
SegmentLists ==
    UNION {[1..n -> {<<>>, <<0>>}] : n \in 0..MaxSegments}

\* the caption texts are prepared for a script with the given segments and
\* a full_text of n words
PrepareTexts(segments, n) ==
    /\ caption.pc = "idle"
    /\ caption' = [pc |-> "render", segments |-> segments,
                   words |-> [k \in 1..n |-> k],
                   texts |-> CaptionTexts(segments, [k \in 1..n |-> k])]
    /\ UNCHANGED <<sched, poller, tfp, now, runs, tables, videoEvents,
                   uploadEvents, daily, vgen, upl, sweep, replays>>

Init ==
    /\ now = 0
    /\ runs = <<>>
    /\ topics = <<>>
    /\ scripts = <<>>
    /\ videos = <<>>
    /\ uploads = <<>>
    /\ videoEvents = <<>>
    /\ uploadEvents = <<>>
    /\ daily = [d \in Dailies |-> DailyStart]
    /\ vgen = [v \in VideoRuns |-> VideoStart]
    /\ upl = [u \in UploadRuns |-> UploadStart]
    /\ sweep = [s \in Sweeps |-> SweepStart]
    /\ replays = 0
    /\ tfp = TestStart
    /\ poller = PollIdle
    /\ sched = SchedIdle
    /\ caption = NoCaption

Next ==
    \/ \E d \in Dailies : DailyStep(d)
    \/ \E d \in Dailies, kind \in Raises : DailyRetry(d, kind)
    \/ \E d \in Dailies : DailyReplay(d)
    \/ \E v \in VideoRuns : VideoStep(v)
    \/ \E v \in VideoRuns, kind \in Raises : VideoRetry(v, kind)
    \/ \E v \in VideoRuns : VideoReplay(v)
    \/ \E u \in UploadRuns : UploadStep(u)
    \/ \E u \in UploadRuns, kind \in Raises : UploadRetry(u, kind)
    \/ \E u \in UploadRuns : UploadReplay(u)
    \/ \E s \in Sweeps : SweepStep(s)
    \/ OperatorStep
    \/ Tick

Spec == Init /\ [][Next]_vars

\* one invocation of the daily pipeline, re-entered by the engine
NextDaily ==
    \/ DailyStep(1)
    \/ \E kind \in Raises : DailyRetry(1, kind)
    \/ DailyReplay(1)

SpecDaily == Init /\ [][NextDaily]_vars

\* the daily pipeline with the sweep and the clock, no operator at work
NextReaper ==
    \/ \E d \in Dailies : DailyStep(d)
    \/ \E d \in Dailies, kind \in Raises : DailyRetry(d, kind)
    \/ \E s \in Sweeps : SweepStep(s)
    \/ Tick

SpecReaper == Init /\ [][NextReaper]_vars

\* the three workflow functions connected by their events
NextFlow ==
    \/ \E d \in Dailies : DailyStep(d)
    \/ \E d \in Dailies, kind \in Raises : DailyRetry(d, kind)
    \/ \E v \in VideoRuns : VideoStep(v)
    \/ \E u \in UploadRuns : UploadStep(u)

SpecFlow == Init /\ [][NextFlow]_vars

\* runs whose worker stopped after creating the run record, with the sweep,
\* the operator endpoints and the clock
NextSweep ==
    \/ \E d \in Dailies : DailyTrigger(d) \/ DailyCreateRun(d)
    \/ \E s \in Sweeps : SweepStep(s)
    \/ OperatorStep
    \/ Tick

SpecSweep == Init /\ [][NextSweep]_vars

\* one run through the three workflow functions, one invocation of each,
\* with work functions that raise and are called again
NextRetry ==
    \/ DailyStep(1)
    \/ VideoStep(1)
    \/ UploadStep(1)
    \/ \E kind \in Raises : DailyRetry(1, kind)
    \/ \E kind \in Raises : VideoRetry(1, kind)
    \/ \E kind \in Raises : UploadRetry(1, kind)

SpecRetry == Init /\ [][NextRetry]_vars

\* the inline pipeline of test_full_pipeline_fn, with the sweep and the clock
NextTest ==
    \/ TestTrigger
    \/ TestStep
    \/ \E s \in Sweeps : SweepStep(s)
    \/ Tick

SpecTest == Init /\ [][NextTest]_vars

\* the video workflow on the events of the daily pipeline and of the videos
\* router, with work functions that raise and re-entry
NextVideo ==
    \/ \E upload_after \in BOOLEAN : generate_video(upload_after)
    \/ DailyTrigger(1)
    \/ DailyCreateRun(1)
    \/ DailyGenerateTopics(1)
    \/ DailySaveTopic(1)
    \/ DailyUpdateTopics(1)
    \/ DailyGenerateScript(1)
    \/ DailySaveScript(1)
    \/ DailyUpdateScripts(1)
    \/ DailySendEvent(1)
    \/ DailyComplete(1)
    \/ \E v \in VideoRuns : VideoStep(v)
    \/ \E v \in VideoRuns, kind \in Raises : VideoRetry(v, kind)
    \/ \E v \in VideoRuns : VideoReplay(v)

SpecVideo == Init /\ [][NextVideo]_vars

\* one call of a polling loop against a job that answers as it likes
NextPoll ==
    \/ RenderWaitStart
    \/ \E status_code \in {200, 500}, status \in RenderStatuses :
          RenderWaitPoll(status_code, status)
    \/ RenderWaitTimeout
    \/ \E done \in BOOLEAN : VideoWaitStart(done)
    \/ \E done \in BOOLEAN : VideoWaitPoll(done)
    \/ \E has_video \in BOOLEAN : VideoWaitExit(has_video)

SpecPoll == Init /\ [][NextPoll]_vars /\ WF_vars(NextPoll)

\* two runs at the same time, the daily pipeline's and the inline test
\* pipeline's, with the video and upload workflows on the events of the
\* daily pipeline and of the videos router
NextIsolation ==
    \/ DailyTrigger(1)
    \/ DailyCreateRun(1)
    \/ DailyGenerateTopics(1)
    \/ DailySaveTopic(1)
    \/ DailyUpdateTopics(1)
    \/ DailyGenerateScript(1)
    \/ DailySaveScript(1)
    \/ DailyUpdateScripts(1)
    \/ DailySendEvent(1)
    \/ DailyComplete(1)
    \/ TestTrigger
    \/ TestStep
    \/ \E upload_after \in BOOLEAN : generate_video(upload_after)
    \/ VideoStep(1)
    \/ UploadStep(1)

SpecIsolation == Init /\ [][NextIsolation]_vars

\* one call of run_pipeline with stages that succeed or fail
NextSched ==
    \/ SchedStart
    \/ \E n \in -1..MaxIdeas : SchedGenerateTopics(n)
    \/ \E ok \in BOOLEAN : SchedGenerate(ok)
    \/ \E outcome \in UploadOutcomes : SchedUpload(outcome)

SpecSched == Init /\ [][NextSched]_vars

\* the caption texts of one script
NextCaption ==
    \E segments \in SegmentLists, n \in 0..MaxWords : PrepareTexts(segments, n)

SpecCaption == Init /\ [][NextCaption]_vars

\* the argument lists the callers of update_pipeline_run pass (functions.py
\* lines 90, 114, 140, 148, 258, 341, 523; pipeline.py lines 122, 135, 167),
\* an error list alone, and no argument at all
StoreArgs ==
    {[NoArgs EXCEPT !.topics_generated = 1],
     [NoArgs EXCEPT !.scripts_generated = 1],
     [NoArgs EXCEPT !.videos_created = 1],
     [NoArgs EXCEPT !.videos_uploaded = 1],
     [NoArgs EXCEPT !.status = "completed"],
     [NoArgs EXCEPT !.status = "failed"],
     [NoArgs EXCEPT !.status = "failed", !.errors = <<TimeoutMsg>>],
     [NoArgs EXCEPT !.status = "completed", !.videos_uploaded = 1],
     [NoArgs EXCEPT !.errors = <<TimeoutMsg>>],
     NoArgs}

\* a call of create_pipeline_run
StoreCreate ==
    /\ Len(runs) < MaxStoreRuns
    /\ runs' = create_pipeline_run(runs, now)
    /\ UNCHANGED <<caption, sched, poller, tfp, now, tables, videoEvents, uploadEvents, daily, vgen, upl,
                   sweep, replays>>

\* a call of update_pipeline_run(run_id, ...) with the arguments a; the call
\* takes one tick of the clock
StoreUpdate(run_id, a) ==
    /\ now < MaxClock
    /\ runs' = update_pipeline_run(runs, run_id, a, now)
    /\ now' = now + 1
    /\ UNCHANGED <<caption, sched, poller, tfp, tables, videoEvents, uploadEvents, daily, vgen, upl, sweep,
                   replays>>

\* the run store on its own, called in any order
NextStore ==
    \/ StoreCreate
    \/ \E run_id \in 1..MaxStoreRuns, a \in StoreArgs : StoreUpdate(run_id, a)
    \/ Tick

SpecStore == Init /\ [][NextStore]_vars

\* one triggered run of the three workflow functions when every call of a
\* work function succeeds (no call raises, so no retry and no handler), every
\* invocation running to its end and every event being handed over
NextScenario ==
    \/ DailyTrigger(1)
    \/ DailyCreateRun(1)
    \/ DailyGenerateTopics(1)
    \/ DailySaveTopic(1)
    \/ DailyUpdateTopics(1)
    \/ DailyGenerateScript(1)
    \/ DailySaveScript(1)
    \/ DailyUpdateScripts(1)
    \/ DailySendEvent(1)
    \/ DailyComplete(1)
    \/ \E v \in VideoRuns : VideoStep(v)
    \/ \E u \in UploadRuns : UploadStep(u)

SpecScenario == Init /\ [][NextScenario]_vars /\ WF_vars(NextScenario)

(***************************************************************************)
(* Properties.                                                             *)
(***************************************************************************)
Range(f) == {f[k] : k \in DOMAIN f}

IsPrefix(a, b) == Len(a) <= Len(b) /\ \A k \in 1..Len(a) : a[k] = b[k]

Terminal == {"completed", "failed"}

StepOk(memo, sid) == Hit(memo, sid) /\ memo[sid].ok

StepFailed(memo, sid) == Hit(memo, sid) /\ ~memo[sid].ok

\* the only changes of a status the run state machine allows
StatusStepAllowed(old, new) ==
    new = old \/ (old = "running" /\ new \in Terminal)

\* C1: in every step that is not an operator override, the status of every
\* run stays as it is or goes from running to completed or to failed; it
\* never leaves completed or failed.
C1_MonotonicStatus ==
    [][~OperatorStep =>
         \A r \in DOMAIN runs :
            StatusStepAllowed(runs[r].status, runs'[r].status)]_vars

\* C2: once a run is completed or failed, no step other than an operator
\* override changes its status, counters, errors or completed_at.
C2_TerminalRunsAreSinks ==
    [][~OperatorStep =>
         \A r \in DOMAIN runs :
            runs[r].status \in Terminal => runs'[r] = runs[r]]_vars

\* number of topics the ideation step of invocation d has returned
GeneratedTopics(d) ==
    IF StepOk(daily[d].memo, "generate-topics")
    THEN Len(daily[d].memo["generate-topics"].val) ELSE 0

RECURSIVE SumGenerated(_)
SumGenerated(n) == IF n = 0 THEN 0 ELSE GeneratedTopics(n) + SumGenerated(n - 1)

\* C3: for every invocation and step id the work function has been called
\* successfully at most once, however often the function was re-entered: the
\* run, topic and script rows a step inserts exist once, and the values the
\* function holds after a re-entry are the ones stored by the first execution.
C3_StepIdempotency ==
    /\ \A d \in Dailies :
        LET p == daily[d] IN
        /\ \A sid \in DOMAIN p.calls : p.calls[sid] <= 1
        /\ p.run_id # 0 => p.run_id = p.memo["create-pipeline-run"].val
        /\ p.topics # <<>> => p.topics = p.memo["generate-topics"].val
        /\ \A k \in DOMAIN p.saved_topics :
              p.saved_topics[k] = p.memo[Id("save-topic-", p.topics[k])].val
    /\ Len(runs) <= Cardinality({d \in Dailies : daily[d].pc # "idle"})
    /\ Len(topics) <= SumGenerated(MaxRuns)
    /\ Len(scripts) <= Len(topics)

\* C3 witness: the function was re-entered after its ideation step had been
\* stored, and has passed "create-pipeline-run" a second time: it holds the
\* stored run id and there is still one run row.
C3_ReplayedCreateStep ==
    /\ replays > 0
    /\ daily[1].pc = "generate_topics"
    /\ Hit(daily[1].memo, "generate-topics")
    /\ daily[1].run_id = 1
    /\ Len(runs) = 1
    /\ daily[1].calls["create-pipeline-run"] = 1

\* the ideas of invocation record p whose script-generation step succeeded
ScriptGenerated(p) ==
    {t \in Range(p.saved_topics) : StepOk(p.memo, Id("generate-script-", t))}

\* C4: when the top-level pipeline has ended and no script-save or counter
\* step failed, the stored scripts_generated is the number of ideas whose
\* script-generation step succeeded.
C4_CounterCorrectness ==
    \A d \in Dailies :
        LET p == daily[d] IN
        (/\ p.pc = "done"
         /\ p.run_id \in DOMAIN runs
         /\ \A t \in Range(p.saved_topics) :
              /\ ~StepFailed(p.memo, Id("save-script-", t))
              /\ ~StepFailed(p.memo, Id("update-run-scripts-", t)))
        => runs[p.run_id].scripts_generated = Cardinality(ScriptGenerated(p))

\* C5: the stored videos_created of a run is the number of video workflow
\* invocations of that run whose counter update was applied, and the stored
\* videos_uploaded the number of such upload workflow invocations.
C5_AdditiveCounters ==
    \A r \in DOMAIN runs :
        /\ runs[r].videos_created =
             Cardinality({v \in VideoRuns :
                 vgen[v].data.run_id = r
                 /\ StepOk(vgen[v].memo, "update-run-videos")})
        /\ runs[r].videos_uploaded =
             Cardinality({u \in UploadRuns :
                 upl[u].data.run_id = r
                 /\ StepOk(upl[u].memo, "update-run-uploads")})

\* C6: the error list of a run only grows at its end: every step leaves the
\* errors stored before it as a prefix of the errors stored after it.
C6_ErrorAccumulation ==
    [][\A r \in DOMAIN runs : IsPrefix(runs[r].errors, runs'[r].errors)]_vars

C8_ReaperCompareAndSet ==
    [][\A s \in Sweeps :
          SweepRun(s) =>
            LET run == Head(sweep[s].runs) IN
            /\ runs[run.id].status # "running" =>
                  /\ runs' = runs
                  /\ sweep'[s].stuck_count = sweep[s].stuck_count
            /\ \A q \in Sweeps \ {s} :
                  sweep'[s].updated \cap sweep'[q].updated = {}]_vars

\* the step ids of the loop body for idea t
IdeaSteps(t) ==
    {Id("generate-script-", t), Id("save-script-", t),
     Id("update-run-scripts-", t)}

\* all four steps of the loop body returned a result for idea t
IdeaSucceeded(p, t) ==
    /\ \A sid \in IdeaSteps(t) : StepOk(p.memo, sid)
    /\ StepOk(p.memo, "trigger-video-generation")

\* a step of the loop body failed for idea t
IdeaFailed(p, t) ==
    \/ \E sid \in IdeaSteps(t) : StepFailed(p.memo, sid)
    \/ /\ \A sid \in IdeaSteps(t) : StepOk(p.memo, sid)
       /\ StepFailed(p.memo, "trigger-video-generation")

\* the steps outside the loop body
SharedSteps(p) ==
    {"create-pipeline-run", "generate-topics", "update-run-topics",
     "complete-pipeline-run"}
    \cup {Id("save-topic-", t) : t \in Range(p.topics)}

\* C9: when the pipeline has ended, a step of the loop body failed for some
\* idea and no step outside the loop failed, then the script step of every
\* idea has run, a video.generate event was emitted for every idea whose
\* steps succeeded, and the pipeline wrote completed and not failed.
C9_PartialFailureContinuation ==
    \A d \in Dailies :
        LET p == daily[d] IN
        (/\ p.pc = "done"
         /\ \E t \in Range(p.saved_topics) : IdeaFailed(p, t)
         /\ \A sid \in SharedSteps(p) : ~StepFailed(p.memo, sid))
        => /\ \A t \in Range(p.saved_topics) :
                /\ Hit(p.memo, Id("generate-script-", t))
                /\ IdeaSucceeded(p, t) =>
                     \E k \in DOMAIN videoEvents :
                        /\ videoEvents[k].topic_id = t
                        /\ videoEvents[k].run_id = p.run_id
           /\ StepOk(p.memo, "complete-pipeline-run")
           /\ ~Hit(p.memo, "fail-pipeline-run")

\* an error entry that references idea t
References(entry, t) ==
    \E sid \in IdeaSteps(t) \cup {"trigger-video-generation"} :
        entry = TopicErrorMsg(t, sid)

\* C10: when the pipeline has ended, the stored error list of its run has
\* exactly one entry referencing each idea whose processing failed.
C10_PerItemFailuresRecorded ==
    \A d \in Dailies :
        LET p == daily[d] IN
        (p.pc = "done" /\ p.run_id \in DOMAIN runs)
        => \A t \in Range(p.saved_topics) :
              IdeaFailed(p, t) =>
                Cardinality({k \in DOMAIN runs[p.run_id].errors :
                    References(runs[p.run_id].errors[k], t)}) = 1

\* the topics the ideation step of invocation record p returned
IdeationResult(p) ==
    IF StepOk(p.memo, "generate-topics")
    THEN p.memo["generate-topics"].val ELSE <<>>

\* the steps of the shared stages that precede the loop over the ideas
StagesBeforeLoop(p) ==
    {"generate-topics", "update-run-topics"}
    \cup {Id("save-topic-", t) : t \in Range(IdeationResult(p))}

OneIdea ==
    StepOk(daily[1].memo, "generate-topics") =>
        Len(daily[1].memo["generate-topics"].val) = 1

\* the run record the scenario ends with
ScenarioResult ==
    /\ Len(runs) >= 1
    /\ runs[1].status = "completed"
    /\ runs[1].videos_created = 1
    /\ runs[1].videos_uploaded = 1
    /\ runs[1].errors = <<>>

\* C12: in a triggered run whose ideation returns one idea, with every
\* adapter call succeeding and the events handed over, the run record
\* eventually has status completed, videos_created 1, videos_uploaded 1 and
\* no error, and keeps them.
C12_EndToEndScenario == <>(~OneIdea) \/ <>[]ScenarioResult

\* C12 witness: the run of one idea after its video was created and
\* uploaded and both counters were written.
C12_ScenarioEnded ==
    /\ OneIdea
    /\ daily[1].pc = "done"
    /\ \E v \in VideoRuns : StepOk(vgen[v].memo, "update-run-videos")
    /\ \E u \in UploadRuns : StepOk(upl[u].memo, "update-run-uploads")
    /\ Len(videos) >= 1 /\ Len(uploads) >= 1
    /\ ScenarioResult

\* the invocations of the upload workflow whose Publisher call succeeded for
\* the video record vid
Published(vid) ==
    {u \in UploadRuns :
        upl[u].data.video_db_id = vid /\ StepOk(upl[u].memo, "upload-video")}

VideoProcessed(e) ==
    \E v \in VideoRuns :
        /\ vgen[v].data = e
        /\ vgen[v].pc = "done"
        /\ StepOk(vgen[v].memo, "save-video-to-db")

\* the youtube.upload event e has been processed
UploadProcessed(e) ==
    \E u \in UploadRuns : upl[u].data = e /\ upl[u].pc = "done"

\* every event emitted for run r has been processed
StagesFinished(r) ==
    /\ \A k \in DOMAIN videoEvents :
          videoEvents[k].run_id = r => VideoProcessed(videoEvents[k])
    /\ \A k \in DOMAIN uploadEvents :
          uploadEvents[k].run_id = r => UploadProcessed(uploadEvents[k])

\* C14: a step that takes a run from running to completed is taken only when
\* every video.generate event emitted for the run has been processed (video
\* record saved) and every youtube.upload event of the run as well.
C14_CompletedAfterAllStages ==
    [][\A r \in DOMAIN runs :
          (runs[r].status = "running" /\ runs'[r].status = "completed")
          => StagesFinished(r)]_vars

\* the step ids that got a failure result in a step from record p to record q
NewFailures(p, q) ==
    {s \in DOMAIN q.memo \ DOMAIN p.memo : ~q.memo[s].ok}

\* the retry bound in a step that takes an invocation from record p, with
\* pending step sid, to record q: at most 2 failed calls are followed by
\* another call, and only while the step has no result; a failure result is
\* stored by the third failed call only; no work function succeeds twice
BoundedRetry(p, q) ==
    /\ q.attempt <= 2
    /\ q.attempt # p.attempt => q.attempt \in {0, p.attempt + 1}
    /\ \A s \in NewFailures(p, q) : p.attempt = 2 /\ q.memo[s].tries = 3
    /\ \A s \in DOMAIN q.calls : q.calls[s] <= 1

\* C15: a work function that fails is called again at most 2 times (at most
\* 3 calls for one step of one invocation) and only while the step has no
\* stored result; when the third call fails a failure result is stored for
\* the step and the error reaches the workflow function (its handler runs,
\* or the function ends with the error); a stored success is never followed
\* by another call.
C15_BoundedRetry ==
    [][/\ \A d \in Dailies :
            /\ BoundedRetry(daily[d], daily'[d])
            /\ daily'[d].attempt > daily[d].attempt =>
                    ~Hit(daily[d].memo, DailySid(daily[d]))
            /\ NewFailures(daily[d], daily'[d]) # {} =>
                    \/ daily'[d].pc \in {"fail", "error"}
                    \/ Len(daily'[d].errors) = Len(daily[d].errors) + 1
       /\ \A v \in VideoRuns :
            /\ BoundedRetry(vgen[v], vgen'[v])
            /\ vgen'[v].attempt > vgen[v].attempt =>
                    ~Hit(vgen[v].memo, VideoSid(vgen[v]))
            /\ NewFailures(vgen[v], vgen'[v]) # {} => vgen'[v].pc = "error"
       /\ \A u \in UploadRuns :
            /\ BoundedRetry(upl[u], upl'[u])
            /\ upl'[u].attempt > upl[u].attempt =>
                    ~Hit(upl[u].memo, UploadSid(upl[u]))
            /\ NewFailures(upl[u], upl'[u]) # {} => upl'[u].pc = "error"]_vars

\* C15 witness: the speech step of the video workflow failed on its third
\* call and the function ended with the error, after a daily pipeline in
\* which a script step failed three times as well and the loop went on.
C15_ThirdCallFailed ==
    /\ vgen[1].pc = "error"
    /\ StepFailed(vgen[1].memo, "generate-tts")
    /\ vgen[1].memo["generate-tts"].tries = 3
    /\ daily[1].pc = "done"
    /\ \E t \in Range(daily[1].saved_topics) :
          StepFailed(daily[1].memo, Id("generate-script-", t))

\* the errors raised for an invalid configuration (a missing API key or
\* template id)
InvalidConfiguration == {"ValueError"}

\* C16: a work function that raises an invalid-configuration error is not
\* called again for that step: no step of any invocation is one in which the
\* executor schedules another call after such an error.
C16_NonRetryableFailsAtOnce ==
    [][\A kind \in InvalidConfiguration :
          /\ \A d \in Dailies : ~DailyRetry(d, kind)
          /\ \A v \in VideoRuns : ~VideoRetry(v, kind)
          /\ \A u \in UploadRuns : ~UploadRetry(u, kind)]_vars

\* the event e was emitted by invocation record p after the script of its
\* idea was generated and saved, and carries that script, the id of the saved
\* script row and the id of p's run
EmittedAfterScript(p, e) ==
    LET gen == Id("generate-script-", e.topic_id)
        save == Id("save-script-", e.topic_id)
    IN  /\ StepOk(p.memo, "create-pipeline-run")
        /\ e.run_id = p.memo["create-pipeline-run"].val
        /\ StepOk(p.memo, gen)
        /\ StepOk(p.memo, save)
        /\ e.script = p.memo[gen].val
        /\ e.script_id = p.memo[save].val
        /\ e.script_id \in DOMAIN scripts
        /\ scripts[e.script_id] =
              [topic_id |-> e.topic_id, script |-> e.script]

\* C17: every video.generate event was emitted after the script step of its
\* idea succeeded and the script was saved, and carries that script, its
\* script_id and the run_id of the emitting run; no event exists for an idea
\* whose script step failed.
C17_EventOrdering ==
    /\ \A k \in DOMAIN videoEvents :
          \E d \in Dailies : EmittedAfterScript(daily[d], videoEvents[k])
    /\ \A d \in Dailies : \A t \in Range(daily[d].saved_topics) :
          StepFailed(daily[d].memo, Id("generate-script-", t)) =>
              \A k \in DOMAIN videoEvents :
                  ~(/\ videoEvents[k].topic_id = t
                    /\ videoEvents[k].run_id = daily[d].run_id)

\* C17 witness: the script step of idea 1 failed and that of idea 2
\* succeeded; the one event emitted is that of idea 2 with the first saved
\* script.
C17_EventOfSecondIdea ==
    /\ daily[1].pc = "done"
    /\ StepFailed(daily[1].memo, Id("generate-script-", 1))
    /\ Len(videoEvents) = 1
    /\ videoEvents[1].topic_id = 2
    /\ videoEvents[1].script_id = 1
    /\ videoEvents[1].run_id = 1

\* C18: in every state reached, completed_at of a run is set exactly when
\* its status is completed or failed, and a call of update_pipeline_run that
\* passes no status (counters or errors only, or nothing) leaves completed_at
\* as it was.
C18_CompletedAtIffTerminal ==
    [][/\ \A r \in DOMAIN runs' :
            (runs'[r].completed_at # NoneInt) <=> (runs'[r].status \in Terminal)
       /\ \A r \in DOMAIN runs, a \in StoreArgs :
            (StoreUpdate(r, a) /\ a.status = NoneStr)
            => runs'[r].completed_at = runs[r].completed_at]_vars

\* C18 witness: a run completed at time 0 whose videos_created was written
\* afterwards: completed_at is still 0.
C18_CounterAfterCompleted ==
    /\ Len(runs) >= 1
    /\ now = 2
    /\ runs[1].status = "completed"
    /\ runs[1].completed_at = 0
    /\ runs[1].videos_created = 1

\* the columns update_pipeline_run takes as keyword arguments
Columns ==
    {"status", "topics_generated", "scripts_generated", "videos_created",
     "videos_uploaded", "errors"}

\* C19: a call update_pipeline_run(run_id, ...) gives every column passed
\* the value passed and leaves every other column of that run as it was
\* (completed_at becomes the time of the call when the status passed is
\* completed or failed, started_at never changes), leaves every other run
\* and the number of runs unchanged, and changes nothing when no argument
\* is passed.
C19_PartialUpdate ==
    [][\A run_id \in 1..MaxStoreRuns, a \in StoreArgs :
          StoreUpdate(run_id, a) =>
            /\ Len(runs') = Len(runs)
            /\ \A q \in DOMAIN runs \ {run_id} : runs'[q] = runs[q]
            /\ run_id \in DOMAIN runs =>
                  /\ \A f \in Columns :
                        runs'[run_id][f] =
                          IF a[f] = NoArgs[f] THEN runs[run_id][f] ELSE a[f]
                  /\ runs'[run_id].started_at = runs[run_id].started_at
                  /\ runs'[run_id].completed_at =
                        IF a.status \in Terminal
                        THEN now ELSE runs[run_id].completed_at
            /\ a = NoArgs => runs' = runs]_vars

\* C19 witness: of two runs, the second had videos_created written and the
\* first was then failed with an error: each kept what the other call left.
C19_TwoRunsUpdated ==
    /\ Len(runs) = 2
    /\ runs[2].videos_created = 1
    /\ runs[2].status = "running"
    /\ runs[2].completed_at = NoneInt
    /\ runs[1].status = "failed"
    /\ runs[1].errors = <<TimeoutMsg>>
    /\ runs[1].completed_at = 1
    /\ runs[1].videos_created = 0

\* the run record after an operator endpoint forced it to status st at time t
Forced(run, st, t) == [run EXCEPT !.status = st, !.completed_at = t]

\* C20: an operator endpoint applied to a running run sets its status to
\* completed (force-complete) or failed (force-fail) and its completed_at,
\* leaves its counters, its error list and every other run unchanged; and a
\* step that changes the status of a run that is already completed or
\* failed is a step of an operator endpoint.
C20_OperatorOverride ==
    [][/\ \A r \in DOMAIN runs :
            runs[r].status = "running" =>
              /\ mark_run_completed(r) =>
                    runs' = [runs EXCEPT ![r] = Forced(runs[r], "completed", now)]
              /\ mark_run_failed(r) =>
                    runs' = [runs EXCEPT ![r] = Forced(runs[r], "failed", now)]
       /\ (\E r \in DOMAIN runs :
              /\ runs[r].status \in Terminal
              /\ runs'[r].status # runs[r].status)
          => OperatorStep]_vars

(***************************************************************************)
(* A backlog: one run more than cleanup_stuck_runs reads, all created at   *)
(* time 0 by workers that stopped after create-pipeline-run.               *)
(***************************************************************************)
MaxBacklog == SweepLimit + 1

InitBacklog ==
    /\ now = 0
    /\ runs = [r \in 1..MaxBacklog |-> NewRun(0)]
    /\ topics = <<>>
    /\ scripts = <<>>
    /\ videos = <<>>
    /\ uploads = <<>>
    /\ videoEvents = <<>>
    /\ uploadEvents = <<>>
    /\ daily = [d \in Dailies |-> DailyStart]
    /\ vgen = [v \in VideoRuns |-> VideoStart]
    /\ upl = [u \in UploadRuns |-> UploadStart]
    /\ sweep = [s \in Sweeps |-> SweepStart]
    /\ replays = 0
    /\ tfp = TestStart
    /\ poller = PollIdle
    /\ sched = SchedIdle
    /\ caption = NoCaption

\* one sweep request and the clock
NextBacklog ==
    \/ SweepStep(1)
    \/ Tick

SpecBacklog == InitBacklog /\ [][NextBacklog]_vars

\* the ids of the rows a sweep holds
Scanned(rows) == {rows[k].id : k \in DOMAIN rows}

\* C21: a sweep scans every run whose status is running, however many run
\* records there are: the rows it reads contain every running run (so that
\* each one past the threshold is failed by that sweep).
C21_SweepScansAllRunning ==
    [][\A s \in Sweeps :
          SweepRead(s) =>
            \A r \in DOMAIN runs :
               runs[r].status = "running" => r \in Scanned(sweep'[s].runs)]_vars

\* the function of invocation record p ended with the error of a step after
\* it had created its run record
EndedWithStepError(p) == p.pc = "error" /\ p.run_id # 0

\* C22: when the daily pipeline or the inline test pipeline has ended with
\* the error of a step after creating its run record, the status of that
\* run is failed.
C22_UnrecoveredErrorMeansFailed ==
    /\ \A d \in Dailies :
          EndedWithStepError(daily[d])
          => runs[daily[d].run_id].status = "failed"
    /\ EndedWithStepError(tfp) => runs[tfp.run_id].status = "failed"

\* the steps of generate_video_fn in program order
VideoOrder ==
    <<"generate-tts", "generate-background-video", "render-final-video",
      "save-video-to-db", "update-run-videos", "trigger-youtube-upload">>

\* step sid is on the path of invocation p (the counter update is skipped
\* for an event without run_id)
OnPath(p, sid) == sid # "update-run-videos" \/ p.data.run_id # 0

\* the youtube.upload event e carries the id and the url of a stored video
OfPersistedVideo(e) ==
    /\ e.video_db_id \in DOMAIN videos
    /\ videos[e.video_db_id].video_url = e.video_url

Emitted(p) == StepOk(p.memo, "trigger-youtube-upload")

\* C23: in the video workflow a step gets its result only after every step
\* before it in the order speech, background video, render, save video
\* record, update run counter, emit youtube.upload has succeeded; the
\* youtube.upload event is emitted only with upload_after true, exactly one
\* per invocation that emitted, and carries the id and url of the video
\* record already stored.
C23_VideoProgramOrder ==
    [][/\ \A v \in VideoRuns, j \in DOMAIN VideoOrder :
            (Hit(vgen'[v].memo, VideoOrder[j])
               /\ ~Hit(vgen[v].memo, VideoOrder[j]))
            => /\ OnPath(vgen[v], VideoOrder[j])
               /\ \A i \in 1..(j - 1) :
                     OnPath(vgen[v], VideoOrder[i])
                     => StepOk(vgen[v].memo, VideoOrder[i])
       /\ \A v \in VideoRuns :
            Emitted(vgen'[v]) => vgen'[v].data.upload_after
       /\ Len(uploadEvents') =
            Cardinality({v \in VideoRuns : Emitted(vgen'[v])})
       /\ \A e \in DOMAIN uploadEvents' :
            /\ e \in DOMAIN uploadEvents => uploadEvents'[e] = uploadEvents[e]
            /\ \E v \in VideoRuns :
                  /\ Emitted(vgen'[v])
                  /\ uploadEvents'[e].video_db_id = vgen'[v].memo["save-video-to-db"].val
                  /\ uploadEvents'[e].run_id = vgen'[v].data.run_id
            /\ e \notin DOMAIN uploadEvents =>
                  /\ uploadEvents'[e].video_db_id \in DOMAIN videos
                  /\ videos[uploadEvents'[e].video_db_id].video_url =
                        uploadEvents'[e].video_url]_vars

\* C23 witness: one invocation saved its video and emitted the event, the
\* other one, with upload_after false, ended after saving its video and the
\* only event is the first one's.
C23_OneEmittedOneNot ==
    /\ vgen[1].pc = "done" /\ Emitted(vgen[1])
    /\ vgen[2].pc = "done" /\ ~vgen[2].data.upload_after
    /\ StepOk(vgen[2].memo, "save-video-to-db")
    /\ Len(uploadEvents) = 1
    /\ OfPersistedVideo(uploadEvents[1])
    /\ uploadEvents[1].video_db_id = vgen[1].video_db_id

\* the video.generate events of run run_id for idea t
EventsOf(run_id, t) ==
    {k \in DOMAIN videoEvents :
        videoEvents[k].topic_id = t /\ videoEvents[k].run_id = run_id}

\* C24: when the daily pipeline has ended and none of its steps has failed,
\* exactly one video.generate event has been emitted for each idea whose
\* script steps succeeded, and the step ids of the loop body of two
\* different ideas are different.
C24_OneEventPerIdea ==
    \A d \in Dailies :
        LET p == daily[d] IN
        (p.pc = "done" /\ \A sid \in DOMAIN p.memo : p.memo[sid].ok) =>
            \A t \in Range(p.saved_topics) :
                /\ (\A sid \in IdeaSteps(t) : StepOk(p.memo, sid))
                   => Cardinality(EventsOf(p.run_id, t)) = 1
                /\ \A t2 \in Range(p.saved_topics) \ {t} :
                      IdeaSteps(t) \cap IdeaSteps(t2) = {}

\* a workflow function that created run r is still executing its steps
Executing(r) ==
    \/ tfp.run_id = r /\ tfp.pc = "step"
    \/ \E d \in Dailies :
          /\ daily[d].run_id = r
          /\ daily[d].pc \notin {"idle", "done", "error"}

\* run r was failed by a sweep
Reaped(r) == runs[r].status = "failed" /\ runs[r].errors = <<TimeoutMsg>>

\* C25: a sweep never writes a run whose workflow function is still
\* executing steps, and once a sweep has failed a run, the workflow of that
\* run completes no further step and the run is never written completed.
C25_ReaperSparesActiveRuns ==
    [][/\ \A s \in Sweeps, r \in DOMAIN runs :
            (SweepRun(s) /\ runs'[r] # runs[r]) => ~Executing(r)
       /\ \A r \in DOMAIN runs :
            Reaped(r) =>
              /\ runs'[r].status # "completed"
              /\ ~(TestStep /\ tfp.run_id = r)]_vars

PollEnded == poller.pc \in {"returned", "raised"}

\* the number of polls a loop may make: max_wait / poll_interval
MaxPolls(fn) ==
    IF fn = "_wait_for_render" THEN RenderMaxWait \div RenderPollInterval
    ELSE VideoMaxWait \div VideoPollInterval

TimeoutErrors ==
    {"Render timed out", "Video generation timed out after 5 minutes"}

\* C26: a call of _wait_for_render or of the polling loop of generate_video
\* makes at most max_wait / poll_interval polls (60 and 30), returns only
\* with the job in a terminal state (succeeded or failed, done), raises the
\* timeout error exactly when the bound is used up with the job not
\* terminal, and every call ends.
C26_PollingDeadline ==
    /\ [](/\ poller.pc # "idle" => poller.polls <= MaxPolls(poller.fn)
          /\ (poller.pc = "returned" /\ poller.fn = "_wait_for_render")
             => poller.status \in {"succeeded", "failed"}
          /\ (poller.pc = "returned" /\ poller.fn = "generate_video")
             => poller.done
          /\ (poller.pc = "raised" /\ poller.err \in TimeoutErrors)
             => /\ poller.polls = MaxPolls(poller.fn)
                /\ poller.status \notin {"succeeded", "failed"}
                /\ ~poller.done)
    /\ ((poller.pc = "loop" /\ poller.polls = MaxPolls(poller.fn)
           /\ ~poller.done)
        ~> (poller.pc = "raised" /\ poller.err \in TimeoutErrors))
    /\ (poller.pc = "loop" ~> PollEnded)

\* C26 witness: a render that never finished: 60 polls, then the timeout
\* error.
C26_RenderTimedOut ==
    /\ poller.fn = "_wait_for_render"
    /\ poller.pc = "raised"
    /\ poller.err = "Render timed out"
    /\ poller.polls = 60
    /\ poller.waited = RenderMaxWait

\* the counters of a run record are ordered along the pipeline
CountersOrdered(row) ==
    /\ 0 <= row.videos_uploaded
    /\ row.videos_uploaded <= row.videos_created
    /\ row.videos_created <= row.scripts_generated
    /\ row.scripts_generated <= row.topics_generated

\* no counter of the row is lower in new than in old
CountersGrow(old, new) ==
    /\ old.topics_generated <= new.topics_generated
    /\ old.scripts_generated <= new.scripts_generated
    /\ old.videos_created <= new.videos_created
    /\ old.videos_uploaded <= new.videos_uploaded

\* C27: after every step, in every run record, videos_uploaded <=
\* videos_created <= scripts_generated <= topics_generated, no counter is
\* negative and no counter is lower than before the step.
C27_CounterOrdering ==
    [][\A r \in DOMAIN runs' :
          /\ CountersOrdered(runs'[r])
          /\ r \in DOMAIN runs => CountersGrow(runs[r], runs'[r])]_vars

\* C27 witness: a run with two ideas whose first video.generate event was
\* handled by two invocations and whose video was uploaded.
C27_DuplicateDeliveryCounted ==
    /\ Len(runs) = 1
    /\ runs[1].topics_generated >= 2
    /\ runs[1].scripts_generated >= 2
    /\ runs[1].videos_created = 1
    /\ runs[1].videos_uploaded = 1
    /\ vgen[1].pc = "done" /\ vgen[2].pc = "done"
    /\ vgen[1].data = vgen[2].data
    /\ StepOk(vgen[1].memo, "update-run-videos")
    /\ StepOk(vgen[2].memo, "update-run-videos")

\* the step leaves every run record but the one with id run_id as it was
OnlyWrites(run_id) ==
    /\ DOMAIN runs \subseteq DOMAIN runs'
    /\ \A r \in DOMAIN runs : r # run_id => runs'[r] = runs[r]

\* C28: a step of a workflow function changes no run record but the one it
\* created or got as run_id in its event, and a step of an invocation whose
\* event has no run_id, like the request that sends such an event, changes
\* no run record.
C28_RunIsolation ==
    [][/\ \A d \in Dailies : DailyStep(d) => OnlyWrites(daily'[d].run_id)
       /\ TestStep => OnlyWrites(tfp'.run_id)
       /\ \A v \in VideoRuns :
            VideoStep(v) =>
              /\ OnlyWrites(vgen'[v].data.run_id)
              /\ vgen'[v].data.run_id = 0 => runs' = runs
       /\ \A u \in UploadRuns :
            UploadStep(u) =>
              /\ OnlyWrites(upl'[u].data.run_id)
              /\ upl'[u].data.run_id = 0 => runs' = runs
       /\ \A upload_after \in BOOLEAN :
            generate_video(upload_after) => runs' = runs]_vars

\* C28 witness: the runs of the daily pipeline and of the inline test
\* pipeline each carry their own counter, and the video and the upload of a
\* request without run_id are stored with no video counted in either run.
C28_TwoRunsAndARequest ==
    /\ Len(runs) = 2
    /\ daily[1].run_id # 0 /\ tfp.run_id # 0
    /\ runs[daily[1].run_id].topics_generated = 2
    /\ runs[tfp.run_id].topics_generated = 1
    /\ vgen[1].pc = "done" /\ vgen[1].data.run_id = 0
    /\ upl[1].pc = "done" /\ upl[1].data.run_id = 0
    /\ Len(videos) = 1 /\ Len(uploads) = 1
    /\ \A r \in DOMAIN runs :
          runs[r].videos_created = 0 /\ runs[r].videos_uploaded = 0


\* the topics with an entry in results["errors"]
TopicsWithError(p) == {e.topic : e \in Range(p.errors)}

(***************************************************************************)
(* C29: DailyPipeline.run_pipeline never raises; every failure of topic    *)
(* generation or of a per-topic stage is an entry of results["errors"], a  *)
(* failure for one topic does not stop the later topics, and on return     *)
(* shorts_uploaded <= shorts_generated <= number of topics and every topic *)
(* either incremented shorts_generated or added an error entry.            *)
(***************************************************************************)
C29_SchedulerRecordsEveryFailure ==
    /\ sched.pc # "raised"
    /\ sched.pc = "returned" =>
          /\ Range(sched.failed) \subseteq Range(sched.errors)
          /\ sched.entered = 1..sched.topics
          /\ sched.shorts_uploaded <= sched.shorts_generated
          /\ sched.shorts_generated <= sched.topics
          /\ \A t \in 1..sched.topics :
                t \in sched.generated \cup TopicsWithError(sched)

\* the words of a list of texts, in order
RECURSIVE WordsOf(_)
WordsOf(texts) ==
    IF texts = <<>> THEN <<>> ELSE Head(texts) \o WordsOf(Tail(texts))

(***************************************************************************)
(* C30: the list of texts passed to the render step always has exactly 4   *)
(* entries; when the script has no non-empty segment texts, the words of   *)
(* the texts, in order, are exactly the words of full_text for every word  *)
(* count, and with fewer than 4 words the texts after the words are empty. *)
(***************************************************************************)
C30_CaptionTextsKeepEveryWord ==
    caption.pc = "render" =>
      /\ Len(caption.texts) = CaptionScenes
      /\ NoSegmentTexts(Slice(caption.segments, 0, CaptionScenes)) =>
            /\ WordsOf(caption.texts) = caption.words
            /\ Len(caption.words) < CaptionScenes =>
                  \A k \in 1..CaptionScenes :
                     caption.texts[k] =
                        IF k <= Len(caption.words) THEN <<caption.words[k]>>
                        ELSE <<>>

================================================================
